---- MODULE Spec2Model ----
(***************************************************************************)
(* Model of the computational core of the Data Analysis application:       *)
(* transformations.py, analysis/statistics.py, relationships/tests.py,     *)
(* relationships/regression.py and data_import/sklearn_import.py.          *)
(*                                                                         *)
(* A DataFrame is a record [names, cols]: cols[i] is the i-th column, a    *)
(* sequence of cells.  A cell is an IEEE double, modelled exactly:         *)
(*   [k |-> "nan"]                    NaN                                  *)
(*   [k |-> "inf", sg |-> 1 / -1]     +infinity / -infinity                *)
(*   [k |-> "q", n |-> n, d |-> d]    the rational n/d (d > 0, reduced)    *)
(*   [k |-> "sqrt", n |-> n, d |-> d] sqrt(n/d), n/d >= 0                  *)
(*   [k |-> "surd", n, d, rn, rd]     (n/d) / sqrt(rn/rd), rn/rd > 0       *)
(*   [k |-> "log", sg, n, d]          sg * log(n/d + epsilon)              *)
(* Rounding is not modelled: arithmetic is exact.                          *)
(***************************************************************************)
EXTENDS Integers, Sequences, FiniteSets, TLC

VARIABLES df, op, arg, result

(* The objects of the application: the heap of DataFrame objects, the      *)
(* DataModel, the references a caller of the DataModel holds, the          *)
(* MainWindow, the background threads, the queue of signals posted to the  *)
(* main thread, a TransformationTab with the DataFrame each of its         *)
(* sub-tab widgets was last handed, and a SimilarityWidget.                *)
VARIABLES heap, data_model, caller, window, threads, event_queue, tab,
          handed, similarity_widget

engine == <<df, op, arg, result>>

gui == <<heap, data_model, caller, window, threads, event_queue, tab,
         handed, similarity_widget>>

vars == <<df, op, arg, result, heap, data_model, caller, window, threads,
          event_queue, tab, handed, similarity_widget>>

(* ------------------------------ bounds -------------------------------- *)

MaxRows == 3
MaxCols == 2
MaxNum == 1
Scale == 1

(* ------------------------- exact arithmetic --------------------------- *)

Abs(x) == IF x < 0 THEN -x ELSE x

Sgn(x) == IF x < 0 THEN -1 ELSE IF x = 0 THEN 0 ELSE 1

RECURSIVE GCD(_, _)
GCD(a, b) == IF b = 0 THEN a ELSE GCD(b, a % b)

NaN == [k |-> "nan"]
PInf == [k |-> "inf", sg |-> 1]
NInf == [k |-> "inf", sg |-> -1]

Q(n, d) ==
    LET s == IF d < 0 THEN -1 ELSE 1
        g == GCD(Abs(n), Abs(d))
    IN  [k |-> "q", n |-> (s * n) \div g, d |-> (s * d) \div g]

Zero == Q(0, 1)
One == Q(1, 1)

IsNaN(v) == v.k = "nan"
IsQ(v) == v.k = "q"

QAdd(a, b) == Q(a.n * b.d + b.n * a.d, a.d * b.d)
QSub(a, b) == Q(a.n * b.d - b.n * a.d, a.d * b.d)
QMul(a, b) == Q(a.n * b.n, a.d * b.d)
QDiv(a, b) == Q(a.n * b.d, a.d * b.n)
QLt(a, b) == a.n * b.d < b.n * a.d
QLe(a, b) == a.n * b.d <= b.n * a.d
QAbs(a) == Q(Abs(a.n), a.d)

RECURSIVE QSum(_)
QSum(s) == IF s = <<>> THEN Zero ELSE QAdd(s[1], QSum(Tail(s)))

(* Float operations on cells that are NaN or rational.                     *)
VSub(a, b) == IF IsNaN(a) \/ IsNaN(b) THEN NaN ELSE QSub(a, b)
VDiv(a, b) == IF IsNaN(a) \/ IsNaN(b) THEN NaN ELSE QDiv(a, b)
VAbs(a) == IF IsNaN(a) THEN NaN ELSE QAbs(a)

(* a > 0 and a > b as Python evaluates them: False when an operand is NaN. *)
Gt0(a) ==
    \/ a.k \in {"q", "sqrt"} /\ a.n > 0
    \/ a.k = "inf" /\ a.sg = 1

VGt(a, b) == IsQ(a) /\ IsQ(b) /\ QLt(b, a)

(* np.sqrt of a cell that is NaN or a rational >= 0                        *)
Sqrt(a) == IF IsNaN(a) THEN NaN ELSE [k |-> "sqrt", n |-> a.n, d |-> a.d]

(* a / sqrt(r) for a rational a and a rational r > 0                       *)
Surd(a, r) == [k |-> "surd", n |-> a.n, d |-> a.d, rn |-> r.n, rd |-> r.d]

(* a / s, s a square root > 0 (or NaN)                                     *)
VDivSqrt(a, s) ==
    IF IsNaN(a) \/ IsNaN(s) THEN NaN ELSE Surd(a, Q(s.n, s.d))

(* The sign of a finite cell.  log(n/d + epsilon) is negative exactly when *)
(* n/d < 1: epsilon is smaller than any gap 1 - n/d of the model's cells.  *)
SignOf(v) ==
    IF v.k = "log" THEN (IF v.sg = 0 THEN 0 ELSE IF v.n >= v.d THEN v.sg ELSE -v.sg)
    ELSE Sgn(v.n)

IsFinite(v) == v.k \in {"q", "sqrt", "surd", "log"}
IsZero(v) == IsFinite(v) /\ SignOf(v) = 0

(* --------------------------- DataFrame -------------------------------- *)

ColumnNames == <<"a", "b", "c", "d", "e", "f", "g", "h">>

Cells == {NaN} \cup {Q(n, Scale) : n \in (-1)..MaxNum}

Frame(cols) == [names |-> SubSeq(ColumnNames, 1, Len(cols)), cols |-> cols]

Elems(seq) == {seq[i] : i \in 1..Len(seq)}

NCols(f) == Len(f.cols)
NRows(f) == IF NCols(f) = 0 THEN 0 ELSE Len(f.cols[1])

(* result[col] = 0: the scalar is broadcast over the rows                  *)
Broadcast(col, v) == [i \in 1..Len(col) |-> v]

(* ----------------------- pandas reductions ---------------------------- *)

(* Reductions skip NaN cells (skipna=True).                                *)
Valid(col) == SelectSeq(col, IsQ)

Mean(col) ==
    LET v == Valid(col)
    IN  IF Len(v) = 0 THEN NaN ELSE QDiv(QSum(v), Q(Len(v), 1))

SumSqDev(v, m) == QSum([i \in 1..Len(v) |-> QMul(QSub(v[i], m), QSub(v[i], m))])

(* Series.var(): ddof = 1, NaN when fewer than two valid cells.            *)
Var(col) ==
    LET v == Valid(col)
    IN  IF Len(v) < 2 THEN NaN
        ELSE QDiv(SumSqDev(v, Mean(col)), Q(Len(v) - 1, 1))

RECURSIVE QMinOf(_)
QMinOf(v) ==
    IF Len(v) = 1 THEN v[1]
    ELSE LET m == QMinOf(Tail(v)) IN IF QLt(v[1], m) THEN v[1] ELSE m

RECURSIVE QMaxOf(_)
QMaxOf(v) ==
    IF Len(v) = 1 THEN v[1]
    ELSE LET m == QMaxOf(Tail(v)) IN IF QLt(m, v[1]) THEN v[1] ELSE m

Min(col) == IF Valid(col) = <<>> THEN NaN ELSE QMinOf(Valid(col))
Max(col) == IF Valid(col) = <<>> THEN NaN ELSE QMaxOf(Valid(col))

AbsCol(col) == [i \in 1..Len(col) |-> VAbs(col[i])]

RECURSIVE Insert(_, _)
Insert(x, s) ==
    IF s = <<>> THEN <<x>>
    ELSE IF QLe(x, s[1]) THEN <<x>> \o s
    ELSE <<s[1]>> \o Insert(x, Tail(s))

RECURSIVE Sorted(_)
Sorted(v) == IF v = <<>> THEN <<>> ELSE Insert(v[1], Sorted(Tail(v)))

(* Series.quantile(num/den): linear interpolation between closest ranks.   *)
Quantile(col, num, den) ==
    LET s == Sorted(Valid(col))
        pos == (Len(s) - 1) * num
        lo == pos \div den
        frac == Q(pos % den, den)
    IN  IF s = <<>> THEN NaN
        ELSE IF pos % den = 0 THEN s[lo + 1]
        ELSE QAdd(s[lo + 1], QMul(QSub(s[lo + 2], s[lo + 1]), frac))

Median(col) == Quantile(col, 1, 2)

(* Series.std(): the square root of Series.var()                           *)
Std(col) == Sqrt(Var(col))

(* ------------------------- transformations.py ------------------------- *)

(* Variant: the division is done for a zero deviation too (0/0)           *)
z_transform_col_unguarded(col) ==
    LET mean == Mean(col)
        std == Std(col)
    IN  [i \in 1..Len(col) |->
            IF Gt0(std) THEN VDivSqrt(VSub(col[i], mean), std) ELSE NaN]

(* Variant: the mean is not subtracted                                     *)
z_transform_col_uncentered(col) ==
    LET std == Std(col)
    IN  IF Gt0(std)
        THEN [i \in 1..Len(col) |-> VDivSqrt(col[i], std)]
        ELSE Broadcast(col, Zero)

z_transform_col(col) ==
    LET mean == Mean(col)
        std == Std(col)
    IN  IF Gt0(std)
        THEN [i \in 1..Len(col) |-> VDivSqrt(VSub(col[i], mean), std)]
        ELSE Broadcast(col, Zero)

(* Variant: mean and std are taken once, from the first column            *)
z_transform_shared(f) ==
    LET mean == Mean(f.cols[1])
        std == Std(f.cols[1])
    IN  [names |-> f.names,
         cols |-> [i \in 1..NCols(f) |->
                      IF Gt0(std)
                      THEN [r \in 1..Len(f.cols[i]) |->
                               VDivSqrt(VSub(f.cols[i][r], mean), std)]
                      ELSE Broadcast(f.cols[i], Zero)]]

(* result = df.copy(); every column is then replaced                       *)
z_transform(f) ==
    [names |-> f.names, cols |-> [i \in 1..NCols(f) |-> z_transform_col(f.cols[i])]]

(* Variant: the maximum is subtracted instead of the minimum              *)
minmax_transform_col_from_max(col) ==
    LET min_val == Min(col)
        max_val == Max(col)
    IN  IF VGt(max_val, min_val)
        THEN [i \in 1..Len(col) |->
                 VDiv(VSub(col[i], max_val), VSub(max_val, min_val))]
        ELSE Broadcast(col, Zero)

minmax_transform_col(col) ==
    LET min_val == Min(col)
        max_val == Max(col)
    IN  IF VGt(max_val, min_val)
        THEN [i \in 1..Len(col) |->
                 VDiv(VSub(col[i], min_val), VSub(max_val, min_val))]
        ELSE Broadcast(col, Zero)

(* result = df.copy(); every column is then replaced                       *)
minmax_transform(f) ==
    [names |-> f.names, cols |-> [i \in 1..NCols(f) |-> minmax_transform_col(f.cols[i])]]

robust_scale_col(col) ==
    LET median == Median(col)
        q1 == Quantile(col, 1, 4)
        q3 == Quantile(col, 3, 4)
        iqr == VSub(q3, q1)
    IN  IF Gt0(iqr)
        THEN [i \in 1..Len(col) |-> VDiv(VSub(col[i], median), iqr)]
        ELSE Broadcast(col, Zero)

(* result = df.copy(); every column is then replaced                       *)
robust_scale(f) ==
    [names |-> f.names, cols |-> [i \in 1..NCols(f) |-> robust_scale_col(f.cols[i])]]

maxabs_scale_col(col) ==
    LET max_abs == Max(AbsCol(col))
    IN  IF Gt0(max_abs)
        THEN [i \in 1..Len(col) |-> VDiv(col[i], max_abs)]
        ELSE Broadcast(col, Zero)

(* result = df.copy(); every column is then replaced                       *)
maxabs_scale(f) ==
    [names |-> f.names, cols |-> [i \in 1..NCols(f) |-> maxabs_scale_col(f.cols[i])]]

(* signs * np.log(abs_vals + epsilon), epsilon = 1e-10.  The result is     *)
(* kept symbolic: sg * log(n/d + epsilon).  Every nonzero |x| of the       *)
(* model differs from 1 by more than epsilon or equals 1, so the log is    *)
(* negative exactly when n/d < 1 (see SignOf).                             *)
LogCell(x) ==
    IF IsNaN(x) THEN NaN
    ELSE [k |-> "log", sg |-> Sgn(x.n), n |-> Abs(x.n), d |-> x.d]

log_transform_col(col) == [i \in 1..Len(col) |-> LogCell(col[i])]

(* result = df.copy(); every column is then replaced                       *)
log_transform(f) ==
    [names |-> f.names, cols |-> [i \in 1..NCols(f) |-> log_transform_col(f.cols[i])]]

TransformNames == {"z_transform", "minmax", "robust", "maxabs", "log"}

Transformations(name, f) ==
    CASE name = "z_transform" -> z_transform(f)
      [] name = "minmax" -> minmax_transform(f)
      [] name = "robust" -> robust_scale(f)
      [] name = "maxabs" -> maxabs_scale(f)
      [] name = "log" -> log_transform(f)

(* A call either returns a value or raises; a message is the sequence of   *)
(* the parts of its f-string.                                              *)
Return(v) == [ok |-> TRUE, val |-> v]
Raise(exc, msg) == [ok |-> FALSE, exc |-> exc, msg |-> msg]

(* Variant: an unknown name falls back to the untransformed data          *)
apply_transformation_fallback(f, transform_type) ==
    IF transform_type \notin TransformNames
    THEN Return(f)
    ELSE Return(Transformations(transform_type, f))

apply_transformation(f, transform_type) ==
    IF transform_type \notin TransformNames
    THEN Raise("ValueError", <<"Unknown transformation: ", transform_type>>)
    ELSE Return(Transformations(transform_type, f))

(* --------------------- data_import/sklearn_import.py ------------------ *)

DatasetNames ==
    {"Iris", "Wine", "Breast Cancer", "Diabetes", "Digits (Flattened)",
     "California Housing"}

(* The loader bound to each name; its DataFrame comes from scikit-learn    *)
(* and is identified by the loader that produced it.                       *)
get_available_datasets(name) ==
    CASE name = "Iris" -> "load_iris"
      [] name = "Wine" -> "load_wine"
      [] name = "Breast Cancer" -> "load_breast_cancer"
      [] name = "Diabetes" -> "load_diabetes"
      [] name = "Digits (Flattened)" -> "load_digits"
      [] name = "California Housing" -> "load_california_housing"

load_sklearn_dataset(name) ==
    IF name \notin DatasetNames
    THEN Raise("ValueError", <<"Unknown dataset: ", name>>)
    ELSE Return([loaded_by |-> get_available_datasets(name)])

(* ------------------------ relationships/tests.py ---------------------- *)

(* Variant: a zero denominator always gives +infinity                     *)
f_test_cell_always_inf(var_i, var_j) ==
    IF Gt0(var_j) THEN VDiv(var_i, var_j) ELSE PInf

(* Variant: the difference of the variances instead of their ratio        *)
f_test_cell_difference(var_i, var_j) ==
    IF Gt0(var_j) THEN VSub(var_i, var_j)
    ELSE IF Gt0(var_i) THEN PInf ELSE One

f_test_cell(var_i, var_j) ==
    IF Gt0(var_j) THEN VDiv(var_i, var_j)
    ELSE IF Gt0(var_i) THEN PInf ELSE One

f_test_matrix(f) ==
    [i \in 1..NCols(f) |-> [j \in 1..NCols(f) |->
        f_test_cell(Var(f.cols[i]), Var(f.cols[j]))]]

HasNaN(col) == \E i \in 1..Len(col) : IsNaN(col[i])

(* A p-value is kept symbolic: the distribution, the square of the         *)
(* statistic it is the tail probability of, and the degrees of freedom.    *)
PValue(dist, sq, dof) ==
    [k |-> "p", dist |-> dist, n |-> sq.n, d |-> sq.d, dof |-> dof]

(* scipy.stats.ttest_ind(a, b): pooled variance, nan_policy = propagate.   *)
(* t = (mean_a - mean_b) / sqrt(svar * (1/n1 + 1/n2)); a division by zero  *)
(* gives an infinity or NaN, not an exception.                             *)
(* Variant: the absolute difference of the means                          *)
ttest_ind_abs(a, b) ==
    LET n1 == Len(a)
        n2 == Len(b)
        dof == n1 + n2 - 2
        d == QAbs(QSub(Mean(a), Mean(b)))
        svar == QDiv(QAdd(QMul(Q(n1 - 1, 1), Var(a)), QMul(Q(n2 - 1, 1), Var(b))),
                     Q(dof, 1))
        rad == QMul(svar, QAdd(Q(1, n1), Q(1, n2)))
    IN  IF HasNaN(a) \/ HasNaN(b) \/ n1 < 2 \/ n2 < 2
        THEN [t |-> NaN, p |-> NaN]
        ELSE IF rad.n = 0
        THEN IF d.n = 0 THEN [t |-> NaN, p |-> NaN]
             ELSE [t |-> PInf, p |-> Zero]
        ELSE [t |-> Surd(d, rad), p |-> PValue("t", QDiv(QMul(d, d), rad), dof)]

ttest_ind(a, b) ==
    LET n1 == Len(a)
        n2 == Len(b)
        dof == n1 + n2 - 2
        d == QSub(Mean(a), Mean(b))
        svar == QDiv(QAdd(QMul(Q(n1 - 1, 1), Var(a)), QMul(Q(n2 - 1, 1), Var(b))),
                     Q(dof, 1))
        rad == QMul(svar, QAdd(Q(1, n1), Q(1, n2)))
    IN  IF HasNaN(a) \/ HasNaN(b) \/ n1 < 2 \/ n2 < 2
        THEN [t |-> NaN, p |-> NaN]
        ELSE IF rad.n = 0
        THEN IF d.n = 0 THEN [t |-> NaN, p |-> NaN]
             ELSE [t |-> IF d.n > 0 THEN PInf ELSE NInf, p |-> Zero]
        ELSE [t |-> Surd(d, rad), p |-> PValue("t", QDiv(QMul(d, d), rad), dof)]

(* The pairs (i, j) of the double loop, and those handed to the            *)
(* statistical routine: the else branch of "if i == j".                    *)
Pairs(n) == (1..n) \X (1..n)
OffDiagonal(n) == {pr \in Pairs(n) : pr[1] # pr[2]}

t_test_routine_pairs(n) == OffDiagonal(n)

t_test_matrix(f) ==
    LET called == t_test_routine_pairs(NCols(f))
        T(i, j) == IF <<i, j>> \in called
                   THEN ttest_ind(f.cols[i], f.cols[j]).t ELSE Zero
        P(i, j) == IF <<i, j>> \in called
                   THEN ttest_ind(f.cols[i], f.cols[j]).p ELSE One
    IN  Return([t |-> [i \in 1..NCols(f) |-> [j \in 1..NCols(f) |-> T(i, j)]],
                p |-> [i \in 1..NCols(f) |-> [j \in 1..NCols(f) |-> P(i, j)]],
                calls |-> called])

(* Rows in which both columns hold a valid cell                            *)
BothValid(x, y) == {i \in 1..Len(x) : IsQ(x[i]) /\ IsQ(y[i])}

RECURSIVE SumOver(_, _)
SumOver(S, g) ==
    IF S = {} THEN Zero
    ELSE LET i == CHOOSE i \in S : TRUE IN QAdd(g[i], SumOver(S \ {i}, g))

(* Sum over the rows of S of (x - mean x) * (y - mean y)                   *)
SumProdDev(S, x, y) ==
    LET mx == QDiv(SumOver(S, x), Q(Cardinality(S), 1))
        my == QDiv(SumOver(S, y), Q(Cardinality(S), 1))
    IN  SumOver(S, [i \in S |-> QMul(QSub(x[i], mx), QSub(y[i], my))])

(* Variant: the divisor is the number of rows (ddof = 0)                   *)
cov_cell_population(x, y) ==
    LET S == BothValid(x, y)
    IN  IF Cardinality(S) < 2 THEN NaN
        ELSE QDiv(SumProdDev(S, x, y), Q(Cardinality(S), 1))

(* DataFrame.cov(): pairwise complete rows, ddof = 1, min_periods = 1      *)
cov_cell(x, y) ==
    LET S == BothValid(x, y)
    IN  IF Cardinality(S) < 2 THEN NaN
        ELSE QDiv(SumProdDev(S, x, y), Q(Cardinality(S) - 1, 1))

covariance_matrix(f) ==
    [i \in 1..NCols(f) |-> [j \in 1..NCols(f) |->
        cov_cell(f.cols[i], f.cols[j])]]

(* DataFrame.corr(method='pearson'): every cell, the diagonal included, is *)
(* covxy / sqrt(ssqdx * ssqdy) over the pairwise complete rows, NaN when   *)
(* the divisor is 0.                                                       *)
(* Variant: the divisor is the sum of squares of x alone (a slope)         *)
corr_cell_slope(x, y) ==
    LET S == BothValid(x, y)
        ssqd == QMul(SumProdDev(S, x, x), SumProdDev(S, x, x))
    IN  IF S = {} THEN NaN
        ELSE IF ssqd.n = 0 THEN NaN
        ELSE Surd(SumProdDev(S, x, y), ssqd)

corr_cell(x, y) ==
    LET S == BothValid(x, y)
        ssqd == QMul(SumProdDev(S, x, x), SumProdDev(S, y, y))
    IN  IF S = {} THEN NaN
        ELSE IF ssqd.n = 0 THEN NaN
        ELSE Surd(SumProdDev(S, x, y), ssqd)

correlation_matrix(f) ==
    [i \in 1..NCols(f) |-> [j \in 1..NCols(f) |->
        corr_cell(f.cols[i], f.cols[j])]]

(* v ** 2 for a correlation cell                                           *)
Square(v) ==
    IF IsNaN(v) THEN NaN ELSE Q(v.n * v.n * v.rd, v.d * v.d * v.rn)

r_squared_matrix(f) ==
    LET corr == correlation_matrix(f)
    IN  [i \in 1..NCols(f) |-> [j \in 1..NCols(f) |-> Square(corr[i][j])]]

IsConstant(x) == \A i \in 1..Len(x) : IsQ(x[i]) /\ x[i] = x[1]

(* scipy.stats.pearsonr(x, y): raises below two rows; NaN for a constant   *)
(* or NaN-holding input; +-1 with p = 1 for exactly two rows.              *)
pearsonr(x, y) ==
    LET n == Len(x)
        S == 1..n
        sxy == SumProdDev(S, x, y)
        ssqd == QMul(SumProdDev(S, x, x), SumProdDev(S, y, y))
    IN  IF n < 2
        THEN Raise("ValueError", <<"x and y must have length at least 2.">>)
        ELSE IF IsConstant(x) \/ IsConstant(y)
        THEN Return([r |-> NaN, p |-> NaN])
        ELSE IF HasNaN(x) \/ HasNaN(y)
        THEN Return([r |-> NaN, p |-> IF n = 2 THEN One ELSE NaN])
        ELSE IF n = 2
        THEN Return([r |-> Q(Sgn(x[2].n * x[1].d - x[1].n * x[2].d)
                               * Sgn(y[2].n * y[1].d - y[1].n * y[2].d), 1),
                     p |-> One])
        ELSE Return([r |-> Surd(sxy, ssqd),
                     p |-> PValue("r", QDiv(QMul(sxy, sxy), ssqd), n - 2)])

(* Position of the pair (i, j) in the double loop                          *)
LoopIndex(n, pr) == (pr[1] - 1) * n + pr[2]

(* Variant: no "if i == j", the routine is called on every pair           *)
pearson_routine_pairs_all(n) == Pairs(n)

pearson_routine_pairs(n) == OffDiagonal(n)

pearson_correlation_with_pvalue(f) ==
    LET n == NCols(f)
        called == pearson_routine_pairs(n)
        R(pr) == pearsonr(f.cols[pr[1]], f.cols[pr[2]])
        failing == {pr \in called : ~R(pr).ok}
        first == CHOOSE pr \in failing :
                     \A o \in failing : LoopIndex(n, pr) <= LoopIndex(n, o)
        C(i, j) == IF <<i, j>> \in called THEN R(<<i, j>>).val.r ELSE One
        P(i, j) == IF <<i, j>> \in called THEN R(<<i, j>>).val.p ELSE Zero
    IN  IF failing # {}
        THEN [ok |-> FALSE, exc |-> R(first).exc, msg |-> R(first).msg,
              calls |-> {pr \in called : LoopIndex(n, pr) <= LoopIndex(n, first)}]
        ELSE Return([r |-> [i \in 1..n |-> [j \in 1..n |-> C(i, j)]],
                     p |-> [i \in 1..n |-> [j \in 1..n |-> P(i, j)]],
                     calls |-> called])

(* --------------------- relationships/regression.py -------------------- *)

DefaultMaxDegree == 5

Dot(u, v) == QSum([i \in 1..Len(u) |-> QMul(u[i], v[i])])

RECURSIVE QPow(_, _)
QPow(a, e) == IF e = 0 THEN One ELSE QMul(a, QPow(a, e - 1))

(* u - (<u, b> / <b, b>) b                                                 *)
Reject(u, b) ==
    LET c == QDiv(Dot(u, b), Dot(b, b))
    IN  [i \in 1..Len(u) |-> QSub(u[i], QMul(c, b[i]))]

RECURSIVE RejectAll(_, _)
RejectAll(u, B) == IF B = <<>> THEN u ELSE RejectAll(Reject(u, B[1]), Tail(B))

Distinct(x) == Cardinality({x[i] : i \in 1..Len(x)})

(* The orthogonal basis B of the column space of [1, x, ..., x^(degree-1)] *)
(* extended by the column x^degree of PolynomialFeatures.  The space has   *)
(* dimension Distinct(x) at most: once B is that long every further power  *)
(* lies in it.                                                             *)
Extend(B, x, degree) ==
    LET q == RejectAll([i \in 1..Len(x) |-> QPow(x[i], degree)], B)
    IN  IF Len(B) = Distinct(x) THEN B
        ELSE IF \A i \in 1..Len(x) : q[i].n = 0 THEN B
        ELSE Append(B, q)

(* The intercept column of LinearRegression                                *)
Intercept(x) == <<[i \in 1..Len(x) |-> One]>>

(* LinearRegression().fit(x_poly, y).predict(x_poly): the least-squares    *)
(* prediction is the projection of y on the column space; the residual     *)
(* y - y_pred is what is left of y.                                        *)
Residual(y, B) == RejectAll(y, B)

(* sklearn.metrics.r2_score(y, y_pred) from the residual y - y_pred:       *)
(* NaN below two samples; for a constant y 1.0 when the fit is exact and   *)
(* 0.0 otherwise.                                                          *)
r2_score(y, res) ==
    LET my == QDiv(QSum(y), Q(Len(y), 1))
        numerator == Dot(res, res)
        denominator == SumSqDev(y, my)
    IN  IF Len(y) < 2 THEN NaN
        ELSE IF denominator.n # 0 THEN QSub(One, QDiv(numerator, denominator))
        ELSE IF numerator.n = 0 THEN One ELSE Zero

(* r2 > best_r2, best_r2 being -infinity, NaN or a rational                *)
Better(r2, best_r2) ==
    /\ IsQ(r2)
    /\ \/ best_r2 = NInf
       \/ IsQ(best_r2) /\ QLt(best_r2, r2)

(* coef_ of a fit is identified by the degree of the fit it belongs to.    *)
RECURSIVE fit_loop(_, _, _, _, _, _)
fit_loop(x, y, degree, max_degree, B, best) ==
    IF degree > max_degree THEN best
    ELSE LET x_poly == Extend(B, x, degree)
             r2 == r2_score(y, Residual(y, x_poly))
             next == IF Better(r2, best.r_squared)
                     THEN [coefficients |-> <<"coef_", degree>>,
                           degree |-> degree, r_squared |-> r2]
                     ELSE best
         IN  fit_loop(x, y, degree + 1, max_degree, x_poly, next)

(* PolynomialFeatures and LinearRegression validate their input: a NaN     *)
(* cell or an empty column raises ValueError.                              *)
fit_polynomial_1d(x, y, max_degree) ==
    IF Len(x) = 0
    THEN Raise("ValueError", <<"Found array with 0 sample(s)">>)
    ELSE IF HasNaN(x) \/ HasNaN(y)
    THEN Raise("ValueError", <<"Input contains NaN">>)
    ELSE Return(fit_loop(x, y, 1, max_degree, Intercept(x),
                         [coefficients |-> <<>>, degree |-> 1, r_squared |-> NInf]))

regression_routine_pairs(n) == OffDiagonal(n)

(* Variant: predictor and response exchanged                              *)
regression_fit_swapped(f, i, j) ==
    fit_polynomial_1d(f.cols[j], f.cols[i], DefaultMaxDegree)

(* The fit asked for in cell (i, j)                                        *)
regression_fit(f, i, j) == fit_polynomial_1d(f.cols[i], f.cols[j], DefaultMaxDegree)

regression_matrix_1d(f) ==
    LET n == NCols(f)
        called == regression_routine_pairs(n)
        R(pr) == regression_fit(f, pr[1], pr[2])
        failing == {pr \in called : ~R(pr).ok}
        first == CHOOSE pr \in failing :
                     \A o \in failing : LoopIndex(n, pr) <= LoopIndex(n, o)
        Cell(i, j) == IF <<i, j>> \in called THEN R(<<i, j>>).val.r_squared ELSE One
    IN  IF failing # {}
        THEN Raise(R(first).exc, R(first).msg)
        ELSE Return([i \in 1..n |-> [j \in 1..n |-> Cell(i, j)]])

(* The r_squared of the fit of one degree: the body of the loop            *)
RECURSIVE PolyBasis(_, _)
PolyBasis(x, degree) ==
    IF degree = 0 THEN Intercept(x) ELSE Extend(PolyBasis(x, degree - 1), x, degree)

fit_degree(x, y, degree) == r2_score(y, Residual(y, PolyBasis(x, degree)))

DefaultDegree == 2

(* PolynomialFeatures(degree, include_bias=False) of three variables: one  *)
(* column per monomial x1^e1 * x2^e2 * x3^e3 with 1 <= e1 + e2 + e3 <=     *)
(* degree.                                                                 *)
Monomials(degree) ==
    {e \in [1..3 -> 0..degree] : e[1] + e[2] + e[3] \in 1..degree}

Monomial(X, e) ==
    [r \in 1..Len(X[1]) |->
        QMul(QMul(QPow(X[1][r], e[1]), QPow(X[2][r], e[2])), QPow(X[3][r], e[3]))]

(* An orthogonal basis of the space spanned by B and the monomials of E;   *)
(* once B has as many vectors as there are rows it spans every column.     *)
RECURSIVE Span(_, _, _)
Span(B, X, E) ==
    IF E = {} \/ Len(B) = Len(X[1]) THEN B
    ELSE LET e == CHOOSE m \in E : TRUE
             q == RejectAll(Monomial(X, e), B)
         IN  Span(IF \A r \in 1..Len(q) : q[r].n = 0 THEN B ELSE Append(B, q),
                  X, E \ {e})

(* coef_ and feature_names are not modelled.                               *)
fit_polynomial_3d(x1, x2, x3, y, degree) ==
    IF Len(y) = 0
    THEN Raise("ValueError", <<"Found array with 0 sample(s)">>)
    ELSE IF HasNaN(x1) \/ HasNaN(x2) \/ HasNaN(x3) \/ HasNaN(y)
    THEN Raise("ValueError", <<"Input contains NaN">>)
    ELSE Return([degree |-> degree,
                 r_squared |-> r2_score(y, Residual(y,
                     Span(Intercept(y), <<x1, x2, x3>>, Monomials(degree))))])

Minimum(a, b) == IF a < b THEN a ELSE b

(* range(a, b) of Python; column indices are 0-based as in the code.       *)
Range(a, b) == a..(b - 1)

(* PolynomialFeatures(degree, include_bias=False) of two variables: the    *)
(* monomials x1^e1 * x2^e2 with 1 <= e1 + e2 <= degree.                    *)
Monomials2(degree) == {e \in Monomials(degree) : e[3] = 0}

(* coef_ and feature_names are not modelled.                               *)
fit_polynomial_2d(x1, x2, y, degree) ==
    IF Len(y) = 0
    THEN Raise("ValueError", <<"Found array with 0 sample(s)">>)
    ELSE IF HasNaN(x1) \/ HasNaN(x2) \/ HasNaN(y)
    THEN Raise("ValueError", <<"Input contains NaN">>)
    ELSE Return([degree |-> degree,
                 r_squared |-> r2_score(y, Residual(y,
                     Span(Intercept(y), <<x1, x2, x2>>, Monomials2(degree))))])

(* The pairs (i, j) the two nested loops visit, 0-based                    *)
regression_2d_pairs(n_cols) ==
    {p \in Range(0, n_cols) \X Range(0, n_cols) : p[2] \in Range(p[1] + 1, n_cols)}

(* Position of a pair in the loop order                                    *)
PairIndex(p, n_cols) == p[1] * n_cols + p[2]

(* pair_name = f"{x1_name}__{x2_name}"                                     *)
pair_name(f, p) == f.names[p[1] + 1] \o "__" \o f.names[p[2] + 1]

(* r2_values of one pair: 1.0 for the two predictors, the fitted R^2 for   *)
(* every other column                                                      *)
pair_r2_values(f, p, degree) ==
    [y_col \in Elems(f.names) |->
        LET y == CHOOSE c \in 1..NCols(f) : f.names[c] = y_col
        IN  IF y_col \in {f.names[p[1] + 1], f.names[p[2] + 1]} THEN One
            ELSE fit_polynomial_2d(f.cols[p[1] + 1], f.cols[p[2] + 1], f.cols[y],
                                   degree).val.r_squared]

(* results[pair_name] = r2_values: a later pair of the same name replaces  *)
(* the entry of an earlier one.  With three or more columns every column   *)
(* enters a fit, and the first fit that rejects its input ends the call.   *)
regression_matrix_2d(f, degree) ==
    LET n_cols == NCols(f)
        pairs == regression_2d_pairs(n_cols)
        last(key) == CHOOSE p \in pairs :
                         /\ pair_name(f, p) = key
                         /\ \A q \in pairs : pair_name(f, q) = key =>
                                PairIndex(q, n_cols) <= PairIndex(p, n_cols)
    IN  IF n_cols >= 3 /\ NRows(f) = 0
        THEN Raise("ValueError", <<"Found array with 0 sample(s)">>)
        ELSE IF n_cols >= 3 /\ \E c \in 1..n_cols : HasNaN(f.cols[c])
        THEN Raise("ValueError", <<"Input contains NaN">>)
        ELSE Return([key \in {pair_name(f, p) : p \in pairs} |->
                 pair_r2_values(f, last(key), degree)])

(* Variant: every triplet i < j < k of the columns                        *)
regression_3d_triplets_unbounded(n_cols) ==
    {t \in Range(0, n_cols) \X Range(0, n_cols) \X Range(0, n_cols) :
        t[1] < t[2] /\ t[2] < t[3]}

(* The triplets (i, j, k) the three nested loops visit                     *)
regression_3d_triplets(n_cols) ==
    {t \in Range(0, Minimum(3, n_cols)) \X Range(0, Minimum(4, n_cols))
           \X Range(0, Minimum(5, n_cols)) :
        t[2] \in Range(t[1] + 1, Minimum(4, n_cols))
        /\ t[3] \in Range(t[2] + 1, Minimum(5, n_cols))}

(* Position of a triplet in the loop order                                 *)
TripletIndex(t) == (t[1] * 5 + t[2]) * 5 + t[3]

(* triplet_name: the parts of the f-string                                 *)
TripletName(f, t) ==
    <<f.names[t[1] + 1], "__", f.names[t[2] + 1], "__", f.names[t[3] + 1]>>

regression_matrix_3d(f, degree) ==
    LET n_cols == NCols(f)
        T == regression_3d_triplets(n_cols)
        IsPredictor(t, y) == f.names[y + 1] \in
            {f.names[t[1] + 1], f.names[t[2] + 1], f.names[t[3] + 1]}
        R(t, y) == fit_polynomial_3d(f.cols[t[1] + 1], f.cols[t[2] + 1],
                                     f.cols[t[3] + 1], f.cols[y + 1], degree)
        Step(s) == TripletIndex(s[1]) * (n_cols + 1) + s[2]
        (* the fit of every step that is not a predictor column            *)
        fits == [s \in {u \in T \X Range(0, n_cols) : ~IsPredictor(u[1], u[2])} |->
                    R(s[1], s[2])]
        failing == {s \in DOMAIN fits : ~fits[s].ok}
        first == CHOOSE s \in failing : \A o \in failing : Step(s) <= Step(o)
        r2_values(t) ==
            [y_col \in Elems(f.names) |->
                LET y == CHOOSE c \in Range(0, n_cols) : f.names[c + 1] = y_col
                IN  IF IsPredictor(t, y) THEN One ELSE fits[<<t, y>>].val.r_squared]
        (* a later triplet of the same name overwrites the earlier entry   *)
        Last(key) == CHOOSE t \in T :
                        /\ TripletName(f, t) = key
                        /\ \A o \in T : TripletName(f, o) = key =>
                               TripletIndex(o) <= TripletIndex(t)
    IN  IF failing # {}
        THEN [ok |-> FALSE, exc |-> fits[first].exc, msg |-> fits[first].msg,
              calls |-> {t \in T : TripletIndex(t) <= TripletIndex(first[1])}]
        ELSE [ok |-> TRUE,
              val |-> [key \in {TripletName(f, t) : t \in T} |-> r2_values(Last(key))],
              calls |-> T]

(* ------------------------ analysis/statistics.py ---------------------- *)

arithmetic_mean(series) == Mean(series)

standard_deviation(series) == Std(series)

data_range(series) == VSub(Max(series), Min(series))

interquartile_range(series) == VSub(Quantile(series, 3, 4), Quantile(series, 1, 4))

mean_absolute_deviation(series) ==
    LET m == Mean(series)
    IN  Mean([i \in 1..Len(series) |-> VAbs(VSub(series[i], m))])

(* abs_values[abs_values > 0] and series[series > 0]: NaN > 0 is False     *)
Positive(col) == SelectSeq(col, Gt0)

RECURSIVE QProduct(_)
QProduct(s) == IF s = <<>> THEN One ELSE QMul(s[1], QProduct(Tail(s)))

(* scipy.stats.gmean(a) = exp(mean(log(a))) for a of positive values: the  *)
(* Len(a)-th root of their product, kept as [k |-> "root", n, d, deg].     *)
gmean(a) ==
    LET prod == QProduct(a)
    IN  [k |-> "root", n |-> prod.n, d |-> prod.d, deg |-> Len(a)]

(* scipy.stats.hmean(a) = len(a) / sum(1 / a) for a of positive values     *)
hmean(a) == QDiv(Q(Len(a), 1), QSum([i \in 1..Len(a) |-> QDiv(One, a[i])]))

(* Variant: the positive elements only, no absolute value                 *)
geometric_mean_positive_only(series) ==
    IF Positive(series) # <<>> THEN gmean(Positive(series)) ELSE Zero

geometric_mean(series) ==
    LET abs_values == AbsCol(series)
    IN  IF Positive(abs_values) # <<>> THEN gmean(Positive(abs_values)) ELSE Zero

harmonic_mean(series) ==
    LET positive == Positive(series)
    IN  IF Len(positive) > 0 THEN hmean(positive) ELSE Zero

(* trim_percent = 0.05 = TrimNum / TrimDen                                 *)
TrimNum == 1
TrimDen == 20

(* np.partition orders the values and puts the NaN cells last.             *)
Partitioned(a) ==
    Sorted(Valid(a)) \o SelectSeq(a, IsNaN)

(* np.mean of a non-empty slice                                            *)
NpMean(a) ==
    IF a = <<>> \/ HasNaN(a) THEN NaN ELSE QDiv(QSum(a), Q(Len(a), 1))

(* Variant: only the lowest values are cut                                *)
trim_mean_low_only(a, num, den) ==
    LET nobs == Len(a)
        lowercut == (num * nobs) \div den
    IN  IF nobs = 0 THEN NaN
        ELSE NpMean(SubSeq(Partitioned(a), lowercut + 1, nobs))

(* scipy.stats.trim_mean(a, proportiontocut): lowercut =                   *)
(* int(proportiontocut * nobs) values are cut from each end of the         *)
(* partitioned array; NaN for an empty array.                              *)
trim_mean(a, num, den) ==
    LET nobs == Len(a)
        lowercut == (num * nobs) \div den
        uppercut == nobs - lowercut
    IN  IF nobs = 0 THEN NaN
        ELSE NpMean(SubSeq(Partitioned(a), lowercut + 1, uppercut))

trimmed_mean(series) == trim_mean(series, TrimNum, TrimDen)

(* std / a for a standard deviation std = sqrt(v) and a rational a > 0     *)
SqrtDiv(std, a) ==
    IF IsNaN(std) \/ IsNaN(a) THEN NaN
    ELSE Sqrt(QDiv(Q(std.n, std.d), QMul(a, a)))

(* Variant: no test of the mean; x / 0 is inf and 0 / 0 is NaN            *)
coefficient_of_variation_unguarded(series) ==
    LET mean == Mean(series)
    IN  IF mean = Zero
        THEN (IF Gt0(Std(series)) THEN PInf ELSE NaN)
        ELSE SqrtDiv(Std(series), VAbs(mean))

coefficient_of_variation(series) ==
    LET mean == Mean(series)
    IN  IF mean = Zero THEN PInf ELSE SqrtDiv(Std(series), VAbs(mean))

(* The statistics of calculate_all_statistics that are modelled            *)
calculate_all_statistics(series) ==
    [ArithmeticMean |-> arithmetic_mean(series),
     GeometricMean |-> geometric_mean(series),
     HarmonicMean |-> harmonic_mean(series),
     TrimmedMean |-> trimmed_mean(series),
     CV |-> coefficient_of_variation(series),
     StandardDeviation |-> standard_deviation(series),
     Range |-> data_range(series),
     IQR |-> interquartile_range(series),
     MAD |-> mean_absolute_deviation(series)]

(* No function of calculate_all_statistics raises on an empty or a         *)
(* one-row column: the table is returned, one column per input column.     *)
analyze_dataframe(f) ==
    Return([names |-> f.names,
            cols |-> [i \in 1..NCols(f) |-> calculate_all_statistics(f.cols[i])]])

(* ------------------------ similarity/distance.py ---------------------- *)

(* ndarray.sum(): a NaN cell makes the sum NaN                             *)
NpSum(a) == IF HasNaN(a) THEN NaN ELSE QSum(a)

(* np.linalg.norm(x, ord) of a vector: sum(abs(x)) for ord = 1,            *)
(* sqrt(sum(x ** 2)) for ord = 2, otherwise sum(abs(x) ** ord) ** (1/ord), *)
(* kept as [k |-> "root", n, d, deg].                                      *)
Norm(x, ord) ==
    LET total == NpSum([i \in 1..Len(x) |->
                     IF IsNaN(x[i]) THEN NaN ELSE QPow(QAbs(x[i]), ord)])
    IN  IF ord = 1 THEN total
        ELSE IF ord = 2 THEN Sqrt(total)
        ELSE IF IsNaN(total) THEN NaN
        ELSE [k |-> "root", n |-> total.n, d |-> total.d, deg |-> ord]

(* scipy.spatial.distance.minkowski(u, v, p)                               *)
minkowski(u, v, p) ==
    IF p <= 0 THEN Raise("ValueError", <<"p must be greater than 0">>)
    ELSE Return(Norm([i \in 1..Len(u) |-> VSub(u[i], v[i])], p))

(* scipy.spatial.distance.euclidean(u, v) is minkowski(u, v, p=2)          *)
euclidean(u, v) == minkowski(u, v, 2).val

(* scipy.spatial.distance.cityblock(u, v) = abs(u - v).sum()               *)
cityblock(u, v) == NpSum([i \in 1..Len(u) |-> VAbs(VSub(u[i], v[i]))])

euclidean_distance_matrix(f) ==
    [i \in 1..NCols(f) |-> [j \in 1..NCols(f) |->
        IF i = j THEN Zero ELSE euclidean(f.cols[i], f.cols[j])]]

manhattan_distance_matrix(f) ==
    [i \in 1..NCols(f) |-> [j \in 1..NCols(f) |->
        IF i = j THEN Zero ELSE cityblock(f.cols[i], f.cols[j])]]

(* Variant: p is not handed on, the default order 2 is used               *)
minkowski_distance_matrix_default_p(f, p) ==
    Return([i \in 1..NCols(f) |-> [j \in 1..NCols(f) |->
        IF i = j THEN Zero ELSE minkowski(f.cols[i], f.cols[j], 2).val]])

(* The first off-diagonal pair raises when p is not positive.              *)
minkowski_distance_matrix(f, p) ==
    IF NCols(f) >= 2 /\ ~minkowski(f.cols[1], f.cols[2], p).ok
    THEN minkowski(f.cols[1], f.cols[2], p)
    ELSE Return([i \in 1..NCols(f) |-> [j \in 1..NCols(f) |->
             IF i = j THEN Zero ELSE minkowski(f.cols[i], f.cols[j], p).val]])

(* sklearn.metrics.pairwise.cosine_similarity(X): every row is divided by  *)
(* its euclidean norm (a norm of 0 is replaced by 1, so a row of zeros     *)
(* stays a row of zeros) and the rows are multiplied pairwise.             *)
cosine_cell(x, y) ==
    LET xx == Dot(x, x)
        yy == Dot(y, y)
    IN  IF xx = Zero \/ yy = Zero THEN Zero ELSE Surd(Dot(x, y), QMul(xx, yy))

(* Variant: the rows are not normalised                                    *)
cosine_similarity_matrix_unnormalised(f) ==
    Return([i \in 1..NCols(f) |-> [j \in 1..NCols(f) |->
        Dot(f.cols[i], f.cols[j])]])

(* X = df.values.T has one row per column of df.  check_array rejects NaN, *)
(* then an array of no row, then an array of no column.                    *)
cosine_similarity_matrix(f) ==
    IF \E i \in 1..NCols(f) : HasNaN(f.cols[i])
    THEN Raise("ValueError", <<"Input contains NaN">>)
    ELSE IF NCols(f) = 0
    THEN Raise("ValueError", <<"Found array with 0 sample(s)">>)
    ELSE IF NRows(f) = 0
    THEN Raise("ValueError", <<"Found array with 0 feature(s)">>)
    ELSE Return([i \in 1..NCols(f) |-> [j \in 1..NCols(f) |->
             cosine_cell(f.cols[i], f.cols[j])]])

DefaultBins == 10

(* np.linspace(lo, hi, n + 1)                                              *)
Linspace(lo, hi, n) ==
    [k \in 1..(n + 1) |-> QAdd(lo, QDiv(QMul(Q(k - 1, 1), QSub(hi, lo)), Q(n, 1)))]

(* The bin edges pd.cut derives from an integer bins: the range of the     *)
(* valid cells cut into n equal parts, the first edge lowered by 0.1% of   *)
(* the range; a range of width 0 is widened by 0.1% of |min| (by 0.001     *)
(* around 0) on both sides first.                                          *)
BinEdges(col, n) ==
    LET mn == Min(col)
        mx == Max(col)
        pad == IF mn = Zero THEN Q(1, 1000) ELSE QMul(Q(1, 1000), QAbs(mn))
        adj == QMul(Q(1, 1000), QSub(mx, mn))
        edges == Linspace(mn, mx, n)
    IN  IF mn = mx THEN Linspace(QSub(mn, pad), QAdd(mx, pad), n)
        ELSE [k \in 1..(n + 1) |-> IF k = 1 THEN QSub(edges[1], adj) ELSE edges[k]]

(* bins.searchsorted(x, side='left'): the number of edges below x          *)
SearchSorted(edges, x) == Cardinality({k \in 1..Len(edges) : QLt(edges[k], x)})

(* pd.cut(col, bins=n, labels=False): the bin index of every cell, NaN for *)
(* a NaN cell.  An empty column is rejected; a column without a valid cell *)
(* has NaN edges, which are rejected as duplicates unless there are two.   *)
cut(col, n) ==
    IF Len(col) = 0 THEN Raise("ValueError", <<"Cannot cut empty array">>)
    ELSE IF Valid(col) = <<>>
    THEN (IF n = 1 THEN Return(col)
          ELSE Raise("ValueError", <<"Bin edges must be unique">>))
    ELSE Return([r \in 1..Len(col) |->
             IF IsNaN(col[r]) THEN NaN
             ELSE Q(SearchSorted(BinEdges(col, n), col[r]) - 1, 1)])

(* set(df_binned[col].dropna())                                            *)
BinSet(binned) == {binned[r] : r \in {r \in 1..Len(binned) : ~IsNaN(binned[r])}}

(* Variant: the overlap coefficient, intersection over the smaller set     *)
jaccard_cell_overlap(A, B) ==
    IF Cardinality(A) = 0 \/ Cardinality(B) = 0 THEN Zero
    ELSE Q(Cardinality(A \cap B),
           IF Cardinality(A) < Cardinality(B) THEN Cardinality(A) ELSE Cardinality(B))

jaccard_cell(A, B) ==
    IF Cardinality(A \cup B) > 0
    THEN Q(Cardinality(A \cap B), Cardinality(A \cup B))
    ELSE Zero

(* The columns are binned one after the other; the first column pd.cut     *)
(* rejects ends the call.                                                  *)
jaccard_similarity_matrix(f, n_bins) ==
    LET failed == {c \in 1..NCols(f) : ~cut(f.cols[c], n_bins).ok}
    IN  IF failed # {}
        THEN cut(f.cols[CHOOSE c \in failed : \A e \in failed : c <= e], n_bins)
        ELSE Return([i \in 1..NCols(f) |-> [j \in 1..NCols(f) |->
                 IF i = j THEN One
                 ELSE jaccard_cell(BinSet(cut(f.cols[i], n_bins).val),
                                   BinSet(cut(f.cols[j], n_bins).val))]])

(* ----------------------------- data_model.py -------------------------- *)

(* DataFrame objects live in the heap, a sequence of DataFrames; a         *)
(* reference is a position in it and None is no reference.                 *)
None == 0

(* df.copy(): a new object with the value of the object r                  *)
Copy(h, r) == Append(h, h[r])

DerivedNames == <<"z_transform", "minmax", "robust", "maxabs", "log">>

SlotNames == {"original"} \cup Elems(DerivedNames)

EmptyDict == [k \in {} |-> None]

DataModel__init__ ==
    [original_data |-> None,
     transformations |-> [k \in SlotNames |-> None],
     metadata |-> EmptyDict]

(* set_data(df): two copies of df, the metadata of df, the five derived    *)
(* slots cleared.  No slot is connected to data_changed.                   *)
set_data(h, m, f) ==
    [heap |-> Copy(Copy(h, f), f),
     data_model |->
        [original_data |-> Len(h) + 1,
         transformations |->
             [k \in DOMAIN m.transformations |->
                 IF k = "original" THEN Len(h) + 2
                 ELSE IF k \in Elems(DerivedNames) THEN None
                 ELSE m.transformations[k]],
         metadata |-> [n_rows |-> NRows(h[f]), n_cols |-> NCols(h[f]),
                       columns |-> h[f].names,
                       dtypes |-> [c \in Elems(h[f].names) |-> "float64"]]]]

(* get_original_data(): a copy of the stored object, or None               *)
get_original_data(h, m) ==
    IF m.original_data # None
    THEN [heap |-> Copy(h, m.original_data), ret |-> Len(h) + 1]
    ELSE [heap |-> h, ret |-> None]

(* get_transformation(name): the stored object itself (dict.get)           *)
get_transformation(h, m, name) ==
    [heap |-> h,
     ret |-> IF name \in DOMAIN m.transformations
             THEN m.transformations[name] ELSE None]

(* set_transformation(name, df): a copy of df under the key name, whatever *)
(* the name and whether or not data is loaded.  No slot is connected to    *)
(* transformation_completed.                                               *)
set_transformation(h, m, name, f) ==
    [heap |-> Copy(h, f),
     data_model |->
        [m EXCEPT !.transformations =
            [k \in DOMAIN m.transformations \cup {name} |->
                IF k = name THEN Len(h) + 1 ELSE m.transformations[k]]]]

has_data(m) == m.original_data # None

(* self._metadata.get(key, default)                                        *)
get_column_names(m) ==
    IF "columns" \in DOMAIN m.metadata THEN m.metadata.columns ELSE <<>>

get_n_columns(m) ==
    IF "n_cols" \in DOMAIN m.metadata THEN m.metadata.n_cols ELSE 0

get_n_rows(m) ==
    IF "n_rows" \in DOMAIN m.metadata THEN m.metadata.n_rows ELSE 0

clear(m) ==
    [original_data |-> None,
     transformations |-> [k \in DOMAIN m.transformations |-> None],
     metadata |-> EmptyDict]

(* ------------------------- threads and signals ------------------------ *)

(* A DataFrame a widget holds is reached by that widget alone and is never *)
(* modified in place: it is kept by value.  NoDataFrame is None.           *)
NoDataFrame == [none |-> TRUE]

(* df.empty: no row or no column                                           *)
IsEmpty(f) == NCols(f) = 0 \/ NRows(f) = 0

(* A QThread object: its kind, the object its signals are connected to,   *)
(* the DataFrame and names it was constructed with, its position i in run  *)
(* and pc: "running", "done" (run has returned), "failed" (run has raised) *)
(* or "destroyed" (the object was deleted while running).                  *)
NewThread(kind, owner, f, names) ==
    [kind |-> kind, owner |-> owner, df |-> f, names |-> names, i |-> 0,
     pc |-> "running", results |-> <<>>]

(* self.calc_thread = ...Thread(df); start(): the thread object held       *)
(* before loses its last reference and is deleted.  Deleting a QThread     *)
(* that is still running ends the process.                                 *)
StartThread(ths, old, th) ==
    IF old # 0 /\ ths[old].pc = "running"
    THEN [ths EXCEPT ![old].pc = "destroyed"]
    ELSE Append(ths, th)

Crashed(ths) == \E t \in 1..Len(ths) : ths[t].pc = "destroyed"

Running(ths) == {t \in 1..Len(ths) : ths[t].pc = "running"}

Event(signal, t, args) == [signal |-> signal, thread |-> t, args |-> args]

(* Variant: finished is emitted before progress                           *)
TransformationThread_run_finished_first(th, t) ==
    LET total == Len(th.names)
        trans_name == th.names[th.i + 1]
        transformed_df == apply_transformation(th.df, trans_name)
    IN  IF th.i < total
        THEN [thread |-> [th EXCEPT !.i = th.i + 1],
              events |-> <<Event("finished", t, <<trans_name, transformed_df.val>>),
                           Event("progress", t,
                               <<(th.i * 100) \div total,
                                 <<"Calculating ", trans_name, "...">> >>)>>]
        ELSE [thread |-> [th EXCEPT !.pc = "done"],
              events |-> <<Event("progress", t, <<100, <<"Complete">> >>)>>]

(* TransformationThread.run, one iteration of the loop at a time: progress *)
(* and finished of the i-th name, then the closing progress.               *)
TransformationThread_run(th, t) ==
    LET total == Len(th.names)
        trans_name == th.names[th.i + 1]
        transformed_df == apply_transformation(th.df, trans_name)
    IN  IF th.i < total
        THEN IF transformed_df.ok
             THEN [thread |-> [th EXCEPT !.i = th.i + 1],
                   events |-> <<Event("progress", t,
                                    <<(th.i * 100) \div total,
                                      <<"Calculating ", trans_name, "...">> >>),
                                Event("finished", t,
                                    <<trans_name, transformed_df.val>>)>>]
             ELSE [thread |-> [th EXCEPT !.pc = "failed"],
                   events |-> <<Event("progress", t,
                                    <<(th.i * 100) \div total,
                                      <<"Calculating ", trans_name, "...">> >>)>>]
        ELSE [thread |-> [th EXCEPT !.pc = "done"],
              events |-> <<Event("progress", t, <<100, <<"Complete">> >>)>>]

SimilarityProgress == <<20, 40, 60, 80>>

(* The four matrices in the order run computes them                        *)
SimilarityMetric(i, f) ==
    CASE i = 0 -> Return(euclidean_distance_matrix(f))
      [] i = 1 -> Return(manhattan_distance_matrix(f))
      [] i = 2 -> cosine_similarity_matrix(f)
      [] i = 3 -> jaccard_similarity_matrix(f, DefaultBins)

(* SimilarityCalculationThread.run, one matrix at a time; a matrix that    *)
(* raises ends the thread without the finished signal.                     *)
SimilarityCalculationThread_run(th, t) ==
    IF th.i < Len(SimilarityProgress)
    THEN LET m == SimilarityMetric(th.i, th.df)
         IN  [thread |-> IF m.ok
                         THEN [th EXCEPT !.i = th.i + 1,
                                         !.results = Append(th.results, m.val)]
                         ELSE [th EXCEPT !.pc = "failed"],
              events |-> <<Event("progress", t, <<SimilarityProgress[th.i + 1]>>)>>]
    ELSE [thread |-> [th EXCEPT !.pc = "done"],
          events |-> <<Event("progress", t, <<100>>),
                       Event("finished", t,
                           <<[euclidean |-> th.results[1],
                              manhattan |-> th.results[2],
                              cosine |-> th.results[3],
                              jaccard |-> th.results[4]]>>)>>]

RelationshipProgress == <<10, 25, 40, 55, 70, 85>>

RelationshipMetric(i, f) ==
    CASE i = 0 -> Return(f_test_matrix(f))
      [] i = 1 -> t_test_matrix(f)
      [] i = 2 -> Return(covariance_matrix(f))
      [] i = 3 -> Return(correlation_matrix(f))
      [] i = 4 -> Return(r_squared_matrix(f))
      [] i = 5 -> regression_matrix_1d(f)

(* RelationshipCalculationThread.run, one matrix at a time                 *)
RelationshipCalculationThread_run(th, t) ==
    IF th.i < Len(RelationshipProgress)
    THEN LET m == RelationshipMetric(th.i, th.df)
         IN  [thread |-> IF m.ok
                         THEN [th EXCEPT !.i = th.i + 1,
                                         !.results = Append(th.results, m.val)]
                         ELSE [th EXCEPT !.pc = "failed"],
              events |-> <<Event("progress", t, <<RelationshipProgress[th.i + 1]>>)>>]
    ELSE [thread |-> [th EXCEPT !.pc = "done"],
          events |-> <<Event("progress", t, <<100>>),
                       Event("finished", t,
                           <<[f_test |-> th.results[1],
                              t_test |-> th.results[2].t,
                              t_test_pval |-> th.results[2].p,
                              covariance |-> th.results[3],
                              correlation |-> th.results[4],
                              r_squared |-> th.results[5],
                              regression_1d |-> th.results[6]]>>)>>]

ThreadRun(th, t) ==
    CASE th.kind = "transformation" -> TransformationThread_run(th, t)
      [] th.kind = "similarity" -> SimilarityCalculationThread_run(th, t)
      [] th.kind = "relationship" -> RelationshipCalculationThread_run(th, t)

(* ------------------------------- widgets ------------------------------ *)

NoResults == [none |-> TRUE]

ProgressBar__init__ == [visible |-> FALSE, value |-> -1]

SimilarityWidget__init__ ==
    [current_data |-> NoDataFrame, data_loaded |-> FALSE,
     progress_bar |-> ProgressBar__init__, views |-> NoResults, calc_thread |-> 0]

(* (df.columns == self.current_data.columns).all(); the comparison raises  *)
(* ValueError for two indexes of different lengths.                        *)
SameColumns(f, g) ==
    IF NCols(f) # NCols(g)
    THEN Raise("ValueError", <<"Lengths must match to compare">>)
    ELSE Return(\A c \in 1..NCols(f) : f.names[c] = g.names[c])

(* "Don't recalculate if data hasn't changed": the row count and the       *)
(* column names are compared                                               *)
SimilarityWidget_unchanged(w, f) ==
    IF w.data_loaded /\ w.current_data # NoDataFrame
       /\ NRows(f) = NRows(w.current_data)
    THEN SameColumns(f, w.current_data)
    ELSE Return(FALSE)

(* SimilarityWidget.set_data(df); an exception leaves the widget as it is  *)
SimilarityWidget_set_data(w, ths, f, owner) ==
    IF f = NoDataFrame \/ IsEmpty(f)
    THEN [widget |-> w, threads |-> ths]
    ELSE IF ~SimilarityWidget_unchanged(w, f).ok \/ SimilarityWidget_unchanged(w, f).val
    THEN [widget |-> w, threads |-> ths]
    ELSE [widget |-> [w EXCEPT !.current_data = f, !.data_loaded = FALSE,
                               !.progress_bar = [visible |-> TRUE, value |-> 0],
                               !.calc_thread = Len(ths) + 1],
          threads |-> StartThread(ths, w.calc_thread,
                          NewThread("similarity", owner, f, <<>>))]

SimilarityWidget_update_progress(w, value) ==
    [w EXCEPT !.progress_bar.value = value]

SimilarityWidget_display_results(w, results) ==
    [w EXCEPT !.views = results, !.progress_bar.visible = FALSE,
              !.data_loaded = TRUE]

RelationshipWidget__init__ ==
    [current_data |-> NoDataFrame, progress_bar |-> ProgressBar__init__,
     views |-> NoResults, calc_thread |-> 0]

RelationshipWidget_set_data(w, ths, f, owner) ==
    IF f = NoDataFrame \/ IsEmpty(f)
    THEN [widget |-> w, threads |-> ths]
    ELSE [widget |-> [w EXCEPT !.current_data = f,
                               !.progress_bar = [visible |-> TRUE, value |-> 0],
                               !.calc_thread = Len(ths) + 1],
          threads |-> StartThread(ths, w.calc_thread,
                          NewThread("relationship", owner, f, <<>>))]

RelationshipWidget_update_progress(w, value) ==
    [w EXCEPT !.progress_bar.value = value]

RelationshipWidget_display_results(w, results) ==
    [w EXCEPT !.views = results, !.progress_bar.visible = FALSE]

AnalysisWidget__init__ == [table |-> NoDataFrame]

(* AnalysisWidget.set_data(df): the statistics are computed at once        *)
AnalysisWidget_set_data(w, f) ==
    IF f = NoDataFrame \/ IsEmpty(f) THEN w
    ELSE [w EXCEPT !.table = analyze_dataframe(f).val]

DataTableWidget__init__ == [df |-> NoDataFrame]

(* ------------------------- transformation_tab.py ---------------------- *)

(* Sub-tab indices: 0 Data, 1 Analysis, 2 Relationships, 3 Similarity      *)
TransformationTab__init__ ==
    [data |-> NoDataFrame, current_index |-> 0,
     data_widget |-> DataTableWidget__init__,
     analysis_widget |-> AnalysisWidget__init__,
     relationship_widget |-> RelationshipWidget__init__,
     similarity_widget |-> SimilarityWidget__init__]

(* Variant: every sub-tab is loaded, whichever is current                  *)
TransformationTab_load_sub_tab_eager(tb, ths, index, owner) ==
    LET r == RelationshipWidget_set_data(tb.relationship_widget, ths, tb.data,
                                         owner \o ".relationship_widget")
    IN  IF tb.data = NoDataFrame
        THEN [tab |-> tb, threads |-> ths, calls |-> {}]
        ELSE [tab |-> [tb EXCEPT !.relationship_widget = r.widget,
                                 !.analysis_widget =
                                     AnalysisWidget_set_data(@, tb.data)],
              threads |-> r.threads,
              calls |-> {<<1, tb.data>>, <<2, tb.data>>}]

(* _load_sub_tab(index): set_data of the widget of the sub-tab index;      *)
(* calls are the set_data calls made, as (sub-tab, DataFrame).             *)
TransformationTab_load_sub_tab(tb, ths, index, owner) ==
    IF tb.data = NoDataFrame THEN [tab |-> tb, threads |-> ths, calls |-> {}]
    ELSE IF index = 1
    THEN [tab |-> [tb EXCEPT !.analysis_widget =
                                 AnalysisWidget_set_data(@, tb.data)],
          threads |-> ths, calls |-> {<<1, tb.data>>}]
    ELSE IF index = 2
    THEN LET r == RelationshipWidget_set_data(tb.relationship_widget, ths,
                      tb.data, owner \o ".relationship_widget")
         IN  [tab |-> [tb EXCEPT !.relationship_widget = r.widget],
              threads |-> r.threads, calls |-> {<<2, tb.data>>}]
    ELSE IF index = 3
    THEN LET r == SimilarityWidget_set_data(tb.similarity_widget, ths,
                      tb.data, owner \o ".similarity_widget")
         IN  [tab |-> [tb EXCEPT !.similarity_widget = r.widget],
              threads |-> r.threads, calls |-> {<<3, tb.data>>}]
    ELSE [tab |-> tb, threads |-> ths, calls |-> {}]

(* TransformationTab.set_data(df): the copy is kept, the data view is      *)
(* loaded, and the current sub-tab, if it is not the data view.            *)
TransformationTab_set_data(tb, ths, f, owner) ==
    LET loaded == [tb EXCEPT !.data = f, !.data_widget.df = f]
    IN  IF loaded.current_index > 0
        THEN TransformationTab_load_sub_tab(loaded, ths, loaded.current_index, owner)
        ELSE [tab |-> loaded, threads |-> ths, calls |-> {}]

(* currentChanged(index): the sub-tab widget has made index current        *)
TransformationTab_on_tab_changed(tb, ths, index, owner) ==
    TransformationTab_load_sub_tab([tb EXCEPT !.current_index = index], ths,
                                   index, owner)

(* ----------------------------- main_window.py ------------------------- *)

ProgressDialog__init__ == [visible |-> FALSE, value |-> -1, canceled |-> FALSE]

MainWindow__init__ ==
    [transformation_tabs |-> [k \in {} |-> TransformationTab__init__],
     trans_thread |-> 0,
     progress_dialog |-> ProgressDialog__init__,
     welcome_visible |-> TRUE, main_tabs_visible |-> FALSE,
     status_bar |-> <<"Ready">>]

(* QProgressDialog.setValue: at the maximum the dialog resets and closes   *)
(* (autoReset, autoClose); below it the dialog, never shown by setValue    *)
(* itself, is shown again once enough time has passed (reshow).            *)
ProgressDialog_setValue(dlg, value, reshow) ==
    IF value = 100
    THEN [visible |-> FALSE, value |-> -1, canceled |-> FALSE]
    ELSE [dlg EXCEPT !.value = value, !.visible = dlg.visible \/ reshow]

(* The Cancel button: the dialog resets and hides; nothing is connected to *)
(* canceled, so the thread goes on.                                        *)
ProgressDialog_cancel(dlg) == [visible |-> FALSE, value |-> -1, canceled |-> TRUE]

(* _on_transformation_complete(trans_name, df): the object the signal      *)
(* carries is stored in the model and shown in the tab of that name.       *)
MainWindow_on_transformation_complete(h, m, win, ths, e) ==
    LET trans_name == e.args[1]
        stored == set_transformation(Append(h, e.args[2]), m, trans_name,
                                     Len(h) + 1)
        shown == TransformationTab_set_data(
                     win.transformation_tabs[trans_name], ths, e.args[2],
                     trans_name)
    IN  IF trans_name \in DOMAIN win.transformation_tabs
        THEN [heap |-> stored.heap, data_model |-> stored.data_model,
              window |-> [win EXCEPT !.transformation_tabs[trans_name] = shown.tab],
              threads |-> shown.threads]
        ELSE [heap |-> stored.heap, data_model |-> stored.data_model,
              window |-> win, threads |-> ths]

MainWindow_update_transform_progress(win, e, reshow) ==
    [win EXCEPT !.progress_dialog = ProgressDialog_setValue(@, e.args[1], reshow),
                !.status_bar = e.args[2]]

(* _calculate_transformations(df): a new progress dialog is shown and a    *)
(* new thread over the five names replaces self.trans_thread; the thread   *)
(* held before is neither stopped nor waited for.                          *)
MainWindow_calculate_transformations(win, ths, f) ==
    [window |-> [win EXCEPT !.progress_dialog =
                                [visible |-> TRUE, value |-> -1, canceled |-> FALSE],
                            !.trans_thread = Len(ths) + 1],
     threads |-> StartThread(ths, win.trans_thread,
                     NewThread("transformation", "window", f, DerivedNames))]

(* _load_data(df): df is the object r of the heap                          *)
MainWindow_load_data(h, m, win, ths, r) ==
    LET stored == set_data(h, m, r)
        original == TransformationTab_set_data(TransformationTab__init__, ths,
                                               h[r], "original")
        tabs == [k \in SlotNames |->
                    IF k = "original" THEN original.tab
                    ELSE TransformationTab__init__]
        started == MainWindow_calculate_transformations(
                       [win EXCEPT !.welcome_visible = FALSE,
                                   !.main_tabs_visible = TRUE,
                                   !.transformation_tabs = tabs],
                       original.threads, h[r])
    IN  [heap |-> stored.heap, data_model |-> stored.data_model,
         window |-> [started.window EXCEPT !.status_bar =
                        <<"Loaded data: ", NRows(h[r]), " rows, ",
                          NCols(h[r]), " columns">>],
         threads |-> started.threads]

(* The thread objects some attribute still refers to                       *)
Referenced(win, tb, w) ==
    {win.trans_thread, tb.relationship_widget.calc_thread,
     tb.similarity_widget.calc_thread, w.calc_thread}
    \cup {win.transformation_tabs[k].relationship_widget.calc_thread :
             k \in DOMAIN win.transformation_tabs}
    \cup {win.transformation_tabs[k].similarity_widget.calc_thread :
             k \in DOMAIN win.transformation_tabs}

(* A thread object no attribute refers to is deleted; the signals it has   *)
(* posted and that are not yet delivered are delivered all the same        *)
(* (keep) or are discarded with it.                                        *)
Pending(q, live, keep) ==
    IF keep THEN q
    ELSE SelectSeq(q, LAMBDA e : e.thread \in live)

(* The objects as their constructors leave them                            *)
Constructed ==
    /\ heap = <<>>
    /\ data_model = DataModel__init__
    /\ caller = {}
    /\ handed = [k \in 1..3 |-> NoDataFrame]
    /\ window = MainWindow__init__
    /\ threads = <<>>
    /\ event_queue = <<>>
    /\ tab = TransformationTab__init__
    /\ similarity_widget = SimilarityWidget__init__

(* --------------------------- state machine ---------------------------- *)

(* Names a caller may pass: the table's names, 'original' (a key of the    *)
(* DataModel, not a transformation) and a name in neither table.           *)
RequestedNames == TransformNames \cup {"original", "boxcox"}
RequestedDatasets == DatasetNames \cup {"Boston", "iris"}

(* Any DataFrame of the bounded shape, NaN cells included: the import      *)
(* layer checks the column types only.                                     *)
Init ==
    /\ \E c \in 0..MaxCols, r \in 0..MaxRows :
           \E cs \in [1..c -> [1..r -> Cells]] : df = Frame(cs)
    /\ op = "none"
    /\ arg = ""
    /\ result = [ok |-> TRUE]
    /\ Constructed

(* An engine call is a pure function of the DataFrame; its result is held  *)
(* until the caller has taken it (TakeResult).                             *)
ApplyTransformation ==
    \E name \in RequestedNames :
        /\ op = "none"
        /\ op' = "apply_transformation"
        /\ arg' = name
        /\ result' = apply_transformation(df, name)
        /\ UNCHANGED <<df, gui>>

LoadSklearnDataset ==
    \E name \in RequestedDatasets :
        /\ op = "none"
        /\ op' = "load_sklearn_dataset"
        /\ arg' = name
        /\ result' = load_sklearn_dataset(name)
        /\ UNCHANGED <<df, gui>>

AnalyzeDataframe ==
    /\ op = "none"
    /\ op' = "analyze_dataframe"
    /\ result' = analyze_dataframe(df)
    /\ UNCHANGED <<df, arg, gui>>

FTestMatrix ==
    /\ op = "none"
    /\ op' = "f_test_matrix"
    /\ result' = Return(f_test_matrix(df))
    /\ UNCHANGED <<df, arg, gui>>

TTestMatrix ==
    /\ op = "none"
    /\ op' = "t_test_matrix"
    /\ result' = t_test_matrix(df)
    /\ UNCHANGED <<df, arg, gui>>

CovarianceMatrix ==
    /\ op = "none"
    /\ op' = "covariance_matrix"
    /\ result' = Return(covariance_matrix(df))
    /\ UNCHANGED <<df, arg, gui>>

CorrelationMatrix ==
    /\ op = "none"
    /\ op' = "correlation_matrix"
    /\ result' = Return(correlation_matrix(df))
    /\ UNCHANGED <<df, arg, gui>>

RSquaredMatrix ==
    /\ op = "none"
    /\ op' = "r_squared_matrix"
    /\ result' = Return(r_squared_matrix(df))
    /\ UNCHANGED <<df, arg, gui>>

PearsonCorrelationWithPvalue ==
    /\ op = "none"
    /\ op' = "pearson_correlation_with_pvalue"
    /\ result' = pearson_correlation_with_pvalue(df)
    /\ UNCHANGED <<df, arg, gui>>

RegressionMatrix1d ==
    /\ op = "none"
    /\ op' = "regression_matrix_1d"
    /\ result' = regression_matrix_1d(df)
    /\ UNCHANGED <<df, arg, gui>>

(* The caller takes the result; the engines keep nothing of it.            *)
TakeResult ==
    /\ op # "none"
    /\ op' = "none"
    /\ arg' = ""
    /\ result' = [ok |-> TRUE]
    /\ UNCHANGED <<df, gui>>

Next ==
    \/ ApplyTransformation
    \/ LoadSklearnDataset
    \/ AnalyzeDataframe
    \/ FTestMatrix
    \/ TTestMatrix
    \/ CovarianceMatrix
    \/ CorrelationMatrix
    \/ RSquaredMatrix
    \/ PearsonCorrelationWithPvalue
    \/ RegressionMatrix1d
    \/ TakeResult

Spec == Init /\ [][Next]_vars

(* ------------------ one column of finer-grained values ---------------- *)

SeriesRows == 4
SeriesNum == 2
SeriesScale == 2
LongRows == 20
HeadRows == 2

SeriesCells == {NaN} \cup {Q(n, SeriesScale) : n \in (-SeriesNum)..SeriesNum}

(* A long column: HeadRows cells followed by one repeated value            *)
LongColumn(head, fill) == head \o [i \in 1..(LongRows - HeadRows) |-> fill]

(* A DataFrame of one column: any column of up to SeriesRows rows, or a    *)
(* long column of LongRows rows.                                           *)
SeriesInit ==
    /\ \/ \E r \in 0..SeriesRows : \E col \in [1..r -> SeriesCells] :
              df = Frame(<<col>>)
       \/ \E head \in [1..HeadRows -> SeriesCells], fill \in SeriesCells :
              df = Frame(<<LongColumn(head, fill)>>)
    /\ op = "none"
    /\ arg = ""
    /\ result = [ok |-> TRUE]
    /\ Constructed

SeriesNext ==
    \/ ApplyTransformation
    \/ AnalyzeDataframe
    \/ TakeResult

SeriesSpec == SeriesInit /\ [][SeriesNext]_vars

(* -------------------------- distance matrices ------------------------- *)

MaxOrder == 3

EuclideanDistanceMatrix ==
    /\ op = "none"
    /\ op' = "euclidean_distance_matrix"
    /\ result' = Return(euclidean_distance_matrix(df))
    /\ UNCHANGED <<df, arg, gui>>

ManhattanDistanceMatrix ==
    /\ op = "none"
    /\ op' = "manhattan_distance_matrix"
    /\ result' = Return(manhattan_distance_matrix(df))
    /\ UNCHANGED <<df, arg, gui>>

(* p is any order from 0 (not a valid order) up to MaxOrder.               *)
MinkowskiDistanceMatrix ==
    \E p \in 0..MaxOrder :
        /\ op = "none"
        /\ op' = "minkowski_distance_matrix"
        /\ arg' = [p |-> p]
        /\ result' = minkowski_distance_matrix(df, p)
        /\ UNCHANGED <<df, gui>>

DistanceNext ==
    \/ EuclideanDistanceMatrix
    \/ ManhattanDistanceMatrix
    \/ MinkowskiDistanceMatrix
    \/ TakeResult

DistanceSpec == Init /\ [][DistanceNext]_vars

(* -------------------------- similarity matrices ----------------------- *)

(* The bin counts a caller passes: small ones and the default              *)
BinCounts == {1, 2, 3, DefaultBins}

CosineSimilarityMatrix ==
    /\ op = "none"
    /\ op' = "cosine_similarity_matrix"
    /\ result' = cosine_similarity_matrix(df)
    /\ UNCHANGED <<df, arg, gui>>

JaccardSimilarityMatrix ==
    \E n_bins \in BinCounts :
        /\ op = "none"
        /\ op' = "jaccard_similarity_matrix"
        /\ arg' = [n_bins |-> n_bins]
        /\ result' = jaccard_similarity_matrix(df, n_bins)
        /\ UNCHANGED <<df, gui>>

SimilarityNext ==
    \/ CosineSimilarityMatrix
    \/ JaccardSimilarityMatrix
    \/ TakeResult

SimilaritySpec == Init /\ [][SimilarityNext]_vars

(* ---------------- fit_polynomial_1d called on its own ----------------- *)

(* x and y are two columns of the DataFrame (x may be y); max_degree is    *)
(* any degree from 1 up to the default.                                    *)
FitPolynomial1d ==
    \E i \in 1..NCols(df), j \in 1..NCols(df), max_degree \in 1..DefaultMaxDegree :
        /\ op = "none"
        /\ op' = "fit_polynomial_1d"
        /\ arg' = [x |-> i, y |-> j, max_degree |-> max_degree]
        /\ result' = fit_polynomial_1d(df.cols[i], df.cols[j], max_degree)
        /\ UNCHANGED <<df, gui>>

FitNext ==
    \/ FitPolynomial1d
    \/ TakeResult

FitSpec == Init /\ [][FitNext]_vars

(* ------------------- regression_matrix_3d, wide data ------------------ *)

WideCols == 6
WideRows == 2

(* The cells of a wide DataFrame: NaN cells are drawn for the DataFrames   *)
(* of fewer than WideRows rows only.                                       *)
WideCells(r) == IF r < WideRows THEN {NaN, Zero, One} ELSE {Zero, One}

WideInit ==
    /\ \E c \in 0..WideCols, r \in 0..WideRows :
           \E cs \in [1..c -> [1..r -> WideCells(r)]] : df = Frame(cs)
    /\ op = "none"
    /\ arg = ""
    /\ result = [ok |-> TRUE]
    /\ Constructed

RegressionMatrix3d ==
    /\ op = "none"
    /\ op' = "regression_matrix_3d"
    /\ result' = regression_matrix_3d(df, DefaultDegree)
    /\ UNCHANGED <<df, arg, gui>>

WideNext ==
    \/ RegressionMatrix3d
    \/ TakeResult

WideSpec == WideInit /\ [][WideNext]_vars

(* ---------------------------- progressions ---------------------------- *)

ProgressionRows == 5
MaxStart == 2
MaxStep == 2

(* The column start, start + step, start + 2 step, ...                     *)
Progression(start, step, n) ==
    [i \in 1..n |-> Q(start + (i - 1) * step, 1)]

(* A DataFrame of two progressions; a = [1,2,3,4,5], b = [2,4,6,8,10] is   *)
(* one of them.                                                            *)
ProgressionInit ==
    /\ \E s1 \in 0..MaxStart, t1 \in 0..MaxStep, s2 \in 0..MaxStart, t2 \in 0..MaxStep,
          n \in 1..ProgressionRows :
           df = Frame(<<Progression(s1, t1, n), Progression(s2, t2, n)>>)
    /\ op = "none"
    /\ arg = ""
    /\ result = [ok |-> TRUE]
    /\ Constructed

ProgressionNext ==
    \/ CovarianceMatrix
    \/ CorrelationMatrix
    \/ EuclideanDistanceMatrix
    \/ TakeResult

ProgressionSpec == ProgressionInit /\ [][ProgressionNext]_vars

(* ---------------- regression_matrix_2d, named columns ----------------- *)

PairCols == 4
PairRows == 2

(* Column names a file may carry; some hold the separator of the keys      *)
NamePool == {"a", "c", "a__b", "b__c"}

(* Sequences of n different names                                          *)
UniqueNames(n) ==
    {ns \in [1..n -> NamePool] : \A i, j \in 1..n : i # j => ns[i] # ns[j]}

PairInit ==
    /\ \E c \in 0..PairCols, r \in 0..PairRows :
           \E ns \in UniqueNames(c), cs \in [1..c -> [1..r -> WideCells(r)]] :
               df = [names |-> ns, cols |-> cs]
    /\ op = "none"
    /\ arg = ""
    /\ result = [ok |-> TRUE]
    /\ Constructed

RegressionMatrix2d ==
    /\ op = "none"
    /\ op' = "regression_matrix_2d"
    /\ result' = regression_matrix_2d(df, DefaultDegree)
    /\ UNCHANGED <<df, arg, gui>>

PairNext ==
    \/ RegressionMatrix2d
    \/ TakeResult

PairSpec == PairInit /\ [][PairNext]_vars

(* ----------------------------- properties ---------------------------- *)

(* A column whose rows all hold the same finite value                      *)
ConstantColumn(col) == Len(col) >= 1 /\ IsConstant(col)

AllZero(col) == \A i \in 1..Len(col) : IsZero(col[i])

AllFinite(col) == \A i \in 1..Len(col) : IsFinite(col[i])

Transformed == op = "apply_transformation" /\ result.ok

(* C1: a lookup by a name outside the table raises an error whose message  *)
(* holds that name and returns no dataset; a name inside the table gives   *)
(* exactly the result of the function bound to it.                         *)
C1_UnknownNameFails ==
    /\ op = "apply_transformation" =>
          /\ arg \notin {"z_transform", "minmax", "robust", "maxabs", "log"} =>
                 ~result.ok /\ arg \in Elems(result.msg) /\ "val" \notin DOMAIN result
          /\ arg = "z_transform" => result = Return(z_transform(df))
          /\ arg = "minmax" => result = Return(minmax_transform(df))
          /\ arg = "robust" => result = Return(robust_scale(df))
          /\ arg = "maxabs" => result = Return(maxabs_scale(df))
          /\ arg = "log" => result = Return(log_transform(df))
    /\ op = "load_sklearn_dataset" =>
          IF arg \in DatasetNames
          THEN result = Return([loaded_by |-> get_available_datasets(arg)])
          ELSE ~result.ok /\ arg \in Elems(result.msg) /\ "val" \notin DOMAIN result

C1_Witness ==
    /\ op = "apply_transformation"
    /\ arg = "original"
    /\ NCols(df) = 2 /\ NRows(df) = 3
    /\ ~result.ok

(* C2 as stated: every transform maps a constant column to zeros.          *)
C2_ConstantColumnAllZero ==
    Transformed =>
        \A i \in 1..NCols(df) :
            ConstantColumn(df.cols[i]) => AllZero(result.val.cols[i])

(* C2 amended: for a constant column of value c, z_transform, minmax and   *)
(* robust give zeros; maxabs gives c/|c| in every row (zeros for c = 0);   *)
(* log gives sign(c) * log(|c| + epsilon) in every row, zero only for      *)
(* c = 0; no output cell is NaN or infinite.                               *)
C2_ConstantColumnAmended ==
    Transformed =>
        \A i \in 1..NCols(df) :
            LET col == df.cols[i]
                out == result.val.cols[i]
                c == col[1]
            IN  ConstantColumn(col) =>
                    /\ Len(out) = Len(col)
                    /\ AllFinite(out)
                    /\ arg \in {"z_transform", "minmax", "robust"} => AllZero(out)
                    /\ arg = "maxabs" =>
                          \A r \in 1..Len(out) : out[r] = Q(Sgn(c.n), 1)
                    /\ arg = "log" =>
                          /\ \A r \in 1..Len(out) : out[r] = LogCell(c)
                          /\ AllZero(out) <=> c = Zero

C2_Witness ==
    /\ Transformed
    /\ arg = "maxabs"
    /\ NRows(df) = 3
    /\ ConstantColumn(df.cols[1])
    /\ df.cols[1][1] = One
    /\ result.val.cols[1] = <<One, One, One>>

(* C3 as stated: an engine call on a Dataset with no column or no row ends *)
(* in an error and returns no result.                                      *)
C3_InvalidShapeRejected ==
    /\ op \in {"apply_transformation", "analyze_dataframe", "f_test_matrix",
               "t_test_matrix"}
    /\ NCols(df) = 0 \/ NRows(df) = 0
    => ~result.ok

(* C4 as stated: with exactly one row the standard deviation is reported   *)
(* as NaN, z_transform outputs no 0 and f_test_matrix outputs no 1.0.      *)
C4_OneRowUndefinedSurfaced ==
    NRows(df) = 1 =>
        /\ op = "analyze_dataframe" =>
              \A i \in 1..NCols(df) : IsNaN(result.val.cols[i].StandardDeviation)
        /\ Transformed /\ arg = "z_transform" =>
              \A i \in 1..NCols(df) : ~IsZero(result.val.cols[i][1])
        /\ op = "f_test_matrix" =>
              \A i, j \in 1..NCols(df) : result.val[i][j] # One

Variance(i) == Var(df.cols[i])

(* C5: cell [i,j] of the F matrix is var_i / var_j for var_j > 0; for      *)
(* var_j = 0 it is +infinity when var_i > 0 and 1.0 otherwise; every       *)
(* diagonal cell is 1.0.                                                   *)
C5_FTestCells ==
    op = "f_test_matrix" =>
        \A i, j \in 1..NCols(df) :
            LET cell == result.val[i][j]
            IN  /\ Gt0(Variance(j)) => cell = VDiv(Variance(i), Variance(j))
                /\ Variance(j) = Zero =>
                       cell = IF Gt0(Variance(i)) THEN PInf ELSE One
                /\ i = j => cell = One

C5_Witness ==
    /\ op = "f_test_matrix"
    /\ NCols(df) = 2
    /\ Variance(1) = Zero /\ Gt0(Variance(2))
    /\ result.val[2][1] = PInf
    /\ result.val[1][1] = One /\ result.val[2][2] = One

(* C6: F[i,j] * F[j,i] = 1 when both variances are nonzero; the two cells  *)
(* are +infinity and 0 when exactly one variance is zero, and both 1.0     *)
(* when both are zero.                                                     *)
C6_FTestInverse ==
    op = "f_test_matrix" =>
        \A i, j \in 1..NCols(df) :
            LET a == result.val[i][j]
                b == result.val[j][i]
            IN  /\ Gt0(Variance(i)) /\ Gt0(Variance(j)) =>
                       IsQ(a) /\ IsQ(b) /\ QMul(a, b) = One
                /\ Gt0(Variance(i)) /\ Variance(j) = Zero => a = PInf /\ b = Zero
                /\ Variance(i) = Zero /\ Variance(j) = Zero => a = One /\ b = One

C6_Witness ==
    /\ op = "f_test_matrix"
    /\ NCols(df) = 2
    /\ Gt0(Variance(1)) /\ Gt0(Variance(2))
    /\ Variance(1) # Variance(2)
    /\ result.val[1][2] # One
    /\ QMul(result.val[1][2], result.val[2][1]) = One

(* v = 1.0 and -1 <= v <= 1 for a correlation cell n/d / sqrt(rn/rd)       *)
IsOne(v) == v.k = "surd" /\ v.n > 0 /\ v.n * v.n * v.rd = v.rn * v.d * v.d
InUnit(v) == v.k = "surd" /\ v.n * v.n * v.rd <= v.rn * v.d * v.d

Neg(v) ==
    CASE v.k = "nan" -> v
      [] v.k = "inf" -> [v EXCEPT !.sg = -v.sg]
      [] OTHER -> [v EXCEPT !.n = -v.n]

(* C8 as stated: the t-statistic matrix is symmetric.                      *)
C8_TTestSymmetric ==
    op = "t_test_matrix" =>
        \A i, j \in 1..NCols(df) : result.val.t[i][j] = result.val.t[j][i]

(* C8 amended: the t-statistic matrix is antisymmetric, t[i,j] = -t[j,i]   *)
(* (NaN in both cells when undefined); the p-value matrix is symmetric.    *)
C8_TTestAntisymmetric ==
    op = "t_test_matrix" =>
        \A i, j \in 1..NCols(df) :
            /\ result.val.t[i][j] = Neg(result.val.t[j][i])
            /\ result.val.p[i][j] = result.val.p[j][i]

C8_Witness ==
    /\ op = "t_test_matrix"
    /\ NCols(df) = 2
    /\ result.val.t[1][2].k = "surd"
    /\ result.val.t[1][2].n > 0
    /\ result.val.t[2][1].n < 0

Diagonal(n) == {<<i, i>> : i \in 1..n}

TTestDiagonal ==
    /\ result.ok
    /\ \A i \in 1..NCols(df) : result.val.t[i][i] = Zero /\ result.val.p[i][i] = One
    /\ result.val.calls \cap Diagonal(NCols(df)) = {}

PearsonDiagonal ==
    /\ \A i \in 1..NCols(df) : result.val.r[i][i] = One /\ result.val.p[i][i] = Zero
    /\ result.val.calls \cap Diagonal(NCols(df)) = {}

(* C9 as stated: for any content t_test_matrix gives t = 0, p = 1 and      *)
(* pearson_correlation_with_pvalue gives r = 1, p = 0 on the diagonal,     *)
(* the statistical routine not being invoked on a pair (i, i).             *)
C9_DiagonalsDefined ==
    /\ op = "t_test_matrix" => TTestDiagonal
    /\ op = "pearson_correlation_with_pvalue" => result.ok /\ PearsonDiagonal

(* C9 amended: as C9, but pearson_correlation_with_pvalue returns its      *)
(* matrices unless the Dataset has fewer than two rows and at least two    *)
(* columns: then pearsonr raises on an off-diagonal pair and no matrix is  *)
(* returned.  The routine is never invoked on a pair (i, i).               *)
C9_DiagonalsAmended ==
    /\ op = "t_test_matrix" => TTestDiagonal
    /\ op = "pearson_correlation_with_pvalue" =>
          /\ result.ok <=> ~(NRows(df) < 2 /\ NCols(df) >= 2)
          /\ result.ok => PearsonDiagonal
          /\ ~result.ok =>
                 /\ "val" \notin DOMAIN result
                 /\ result.calls \cap Diagonal(NCols(df)) = {}

C9_Witness ==
    /\ op = "pearson_correlation_with_pvalue"
    /\ result.ok
    /\ NCols(df) = 2 /\ NRows(df) = 3
    /\ ConstantColumn(df.cols[1])
    /\ HasNaN(df.cols[2])
    /\ result.val.r[1][1] = One /\ result.val.r[2][2] = One
    /\ IsNaN(result.val.r[1][2])

RegressionCells ==
    /\ Len(result.val) = NCols(df)
    /\ \A i, j \in 1..NCols(df) :
           /\ Len(result.val[i]) = NCols(df)
           /\ i = j => result.val[i][j] = One
           /\ i # j => result.val[i][j] =
                  fit_polynomial_1d(df.cols[i], df.cols[j], 5).val.r_squared

(* C10 as stated: regression_matrix_1d returns an N x N matrix with        *)
(* diagonal 1.0 whatever the columns hold, cell [i,j] being the r_squared  *)
(* of the fit of column j on column i.                                     *)
C10_RegressionMatrix ==
    op = "regression_matrix_1d" => result.ok /\ RegressionCells

(* C10 amended: as C10 whenever the matrix is returned; with two or more   *)
(* columns and a NaN cell or no row, input validation of the fit raises    *)
(* and no matrix is returned.                                              *)
C10_RegressionMatrixAmended ==
    op = "regression_matrix_1d" =>
        /\ result.ok <=>
               ~(/\ NCols(df) >= 2
                 /\ NRows(df) = 0 \/ \E i \in 1..NCols(df) : HasNaN(df.cols[i]))
        /\ result.ok => RegressionCells
        /\ ~result.ok => "val" \notin DOMAIN result

C10_Witness ==
    /\ op = "regression_matrix_1d"
    /\ result.ok
    /\ NCols(df) = 2 /\ NRows(df) = 3
    /\ result.val[1][2] = One
    /\ result.val[2][1] = Zero
    /\ result.val[1][1] = One /\ result.val[2][2] = One

(* Every DataFrame that agrees with f on column i: the other columns hold  *)
(* any cells.                                                              *)
AgreeingOn(f, i) ==
    {Frame(cs) : cs \in {c \in [1..NCols(f) -> [1..NRows(f) -> Cells]] :
                             c[i] = f.cols[i]}}

(* C13: each transform returns a new Dataset with the column names, the    *)
(* column order and the row count of its input, leaves the input           *)
(* unmodified, and computes output column c from input column c only: any  *)
(* input that agrees on column c gives the same output column c.           *)
C13_TransformColumnwise ==
    /\ [](Transformed =>
            /\ result.val.names = df.names
            /\ Len(result.val.cols) = NCols(df)
            /\ \A i \in 1..NCols(df) :
                   /\ Len(result.val.cols[i]) = NRows(df)
                   /\ \A g \in AgreeingOn(df, i) :
                          Transformations(arg, g).cols[i] = result.val.cols[i])
    /\ [][op' = "apply_transformation" => df' = df]_vars

C13_Witness ==
    /\ Transformed
    /\ arg = "z_transform"
    /\ NCols(df) = 2 /\ NRows(df) = 3
    /\ df.cols[1] # df.cols[2]
    /\ Gt0(Std(df.cols[1])) /\ Gt0(Std(df.cols[2]))
    /\ result.val.cols[1] # result.val.cols[2]

InUnitInterval(v) == IsQ(v) /\ 0 <= v.n /\ v.n <= v.d

(* C14 as stated: every minmax output value lies in [0, 1], a row holding  *)
(* the column minimum maps to 0.0 and a row holding the maximum to 1.0.    *)
C14_MinMaxUnitRange ==
    Transformed /\ arg = "minmax" =>
        \A i \in 1..NCols(df) : \A r \in 1..NRows(df) :
            LET col == df.cols[i]
                out == result.val.cols[i]
            IN  /\ InUnitInterval(out[r])
                /\ col[r] = Min(col) => out[r] = Zero
                /\ col[r] = Max(col) => out[r] = One

(* C14 amended: when the column maximum exceeds its minimum every          *)
(* non-missing value maps into [0, 1], a minimum row to 0.0, a maximum row *)
(* to 1.0 and a NaN row to NaN; otherwise (one distinct value, or no value *)
(* at all) every row, NaN rows included, maps to 0.0.                      *)
C14_MinMaxAmended ==
    Transformed /\ arg = "minmax" =>
        \A i \in 1..NCols(df) : \A r \in 1..NRows(df) :
            LET col == df.cols[i]
                out == result.val.cols[i]
            IN  IF VGt(Max(col), Min(col))
                THEN /\ IsNaN(col[r]) <=> IsNaN(out[r])
                     /\ IsQ(col[r]) => InUnitInterval(out[r])
                     /\ col[r] = Min(col) <=> out[r] = Zero
                     /\ col[r] = Max(col) <=> out[r] = One
                ELSE out[r] = Zero

C14_Witness ==
    /\ Transformed /\ arg = "minmax"
    /\ NCols(df) = 2
    /\ df.cols[1] = <<Q(-1, 1), Zero, One>>
    /\ result.val.cols[1] = <<Zero, Q(1, 2), One>>
    /\ df.cols[2] = <<One, NaN, One>>
    /\ result.val.cols[2] = <<Zero, Zero, Zero>>

(* The numerator a of a cell a / sqrt(r), and the rows that hold a value   *)
Numerator(v) == Q(v.n, v.d)
ValidRows(col) == {r \in 1..Len(col) : ~IsNaN(col[r])}

(* C15: for a column with sample standard deviation > 0 the z_transform    *)
(* output has mean 0 and sample standard deviation 1: its values sum to 0  *)
(* and their squares sum to n - 1, n the number of values of the column    *)
(* (pandas reductions skip missing cells, which stay missing).             *)
C15_ZTransformStandardized ==
    Transformed /\ arg = "z_transform" =>
        \A i \in 1..NCols(df) :
            LET col == df.cols[i]
                out == result.val.cols[i]
                S == ValidRows(out)
            IN  Gt0(Std(col)) =>
                    /\ S = ValidRows(col)
                    /\ \A r \in S : out[r].k = "surd" /\ Q(out[r].rn, out[r].rd) = Var(col)
                    /\ SumOver(S, [r \in S |-> Numerator(out[r])]) = Zero
                    /\ SumOver(S, [r \in S |-> Square(out[r])]) = Q(Cardinality(S) - 1, 1)

C15_Witness ==
    /\ Transformed /\ arg = "z_transform"
    /\ NCols(df) = 1
    /\ df.cols[1] = <<Zero, Zero, One>>
    /\ Var(df.cols[1]) = Q(1, 3)
    /\ Numerator(result.val.cols[1][3]) = Q(2, 3)
    /\ Numerator(result.val.cols[1][1]) = Q(-1, 3)

(* The arguments of the call of fit_polynomial_1d                          *)
FitX == df.cols[arg.x]
FitY == df.cols[arg.y]

(* a >= b for two r_squared values                                         *)
R2Ge(a, b) == IsQ(a) /\ IsQ(b) /\ QLe(b, a)

(* C11 as stated, for arrays of at least one row without missing cells:    *)
(* the call returns the degree b, the coefficients and the r_squared of    *)
(* one fit, 1 <= b <= max_degree, r_squared(b) >= r_squared(d) for every   *)
(* tried degree d, and b is the smallest degree attaining the maximum.     *)
C11_BestDegree ==
    /\ op = "fit_polynomial_1d"
    /\ Len(FitX) >= 1
    /\ ~HasNaN(FitX) /\ ~HasNaN(FitY)
    => /\ result.ok
       /\ result.val.degree \in 1..arg.max_degree
       /\ result.val.coefficients = <<"coef_", result.val.degree>>
       /\ result.val.r_squared = fit_degree(FitX, FitY, result.val.degree)
       /\ \A d \in 1..arg.max_degree :
              /\ R2Ge(result.val.r_squared, fit_degree(FitX, FitY, d))
              /\ fit_degree(FitX, FitY, d) = result.val.r_squared =>
                     result.val.degree <= d

(* C12: regression_matrix_3d evaluates only triplets (i, j, k) of column   *)
(* indices with i < j < k, i < 3, j < 4 and k < 5, at most 10 of them,     *)
(* each combination at most once; for fewer than 3 columns it returns an   *)
(* empty result; every returned entry holds one value for every column,    *)
(* 1.0 for its three predictor columns.                                    *)
C12_TripletsBounded ==
    op = "regression_matrix_3d" =>
        /\ \A t \in result.calls :
               /\ 0 <= t[1] /\ t[1] < t[2] /\ t[2] < t[3] /\ t[3] < NCols(df)
               /\ t[1] < 3 /\ t[2] < 4 /\ t[3] < 5
               /\ \A u \in result.calls :
                      {u[1], u[2], u[3]} = {t[1], t[2], t[3]} => u = t
        /\ Cardinality(result.calls) <= 10
        /\ NCols(df) < 3 => result.ok /\ DOMAIN result.val = {}
        /\ result.ok =>
               /\ DOMAIN result.val = {TripletName(df, t) : t \in result.calls}
               /\ \A t \in result.calls :
                      LET entry == result.val[TripletName(df, t)]
                      IN  /\ DOMAIN entry = Elems(df.names)
                          /\ \A p \in 1..3 : entry[df.names[t[p] + 1]] = One

C12_Witness ==
    /\ op = "regression_matrix_3d"
    /\ result.ok
    /\ NCols(df) = 6 /\ NRows(df) = 2
    /\ Cardinality(result.calls) = 10
    /\ <<2, 3, 4>> \in result.calls
    /\ result.val[<<"a", "__", "b", "__", "c">>]["f"] = Zero
    /\ result.val[<<"a", "__", "b", "__", "c">>]["d"] = One

(* The column of a one-column DataFrame and its statistics                 *)
Series == df.cols[1]
Stats == result.val.cols[1]
Analyzed == op = "analyze_dataframe" /\ NCols(df) = 1

(* C16 as stated: log_transform is defined for every real element and      *)
(* preserves its sign: negative for x < 0, zero for x = 0, positive for    *)
(* x > 0.                                                                  *)
C16_LogPreservesSign ==
    Transformed /\ arg = "log" =>
        \A i \in 1..NCols(df) : \A r \in 1..NRows(df) :
            IsQ(df.cols[i][r]) =>
                /\ IsFinite(result.val.cols[i][r])
                /\ SignOf(result.val.cols[i][r]) = Sgn(df.cols[i][r].n)

NonzeroRows(col) == {r \in 1..Len(col) : IsQ(col[r]) /\ col[r].n # 0}
PositiveRows(col) == {r \in 1..Len(col) : IsQ(col[r]) /\ col[r].n > 0}

RECURSIVE ProductOver(_, _)
ProductOver(S, g) ==
    IF S = {} THEN One
    ELSE LET i == CHOOSE i \in S : TRUE IN QMul(g[i], ProductOver(S \ {i}, g))

(* C18: geometric_mean is the geometric mean of exactly the absolute       *)
(* values of the nonzero elements and harmonic_mean the harmonic mean of   *)
(* exactly the positive elements; each is 0 when its selected set is empty *)
(* and otherwise lies between the minimum and the maximum of that set.     *)
C18_GeometricHarmonic ==
    Analyzed =>
        LET gm == Stats.GeometricMean
            hm == Stats.HarmonicMean
            NZ == NonzeroRows(Series)
            PS == PositiveRows(Series)
            abs == [r \in NZ |-> QAbs(Series[r])]
            inv == [r \in PS |-> QDiv(One, Series[r])]
        IN  /\ IF NZ = {} THEN gm = Zero
               ELSE /\ gm.k = "root" /\ gm.deg = Cardinality(NZ)
                    /\ Q(gm.n, gm.d) = ProductOver(NZ, abs)
                    /\ \E lo \in NZ : \A r \in NZ : QLe(abs[lo], abs[r])
                           /\ QLe(QPow(abs[lo], gm.deg), Q(gm.n, gm.d))
                    /\ \E hi \in NZ : \A r \in NZ : QLe(abs[r], abs[hi])
                           /\ QLe(Q(gm.n, gm.d), QPow(abs[hi], gm.deg))
            /\ IF PS = {} THEN hm = Zero
               ELSE /\ IsQ(hm)
                    /\ QMul(hm, SumOver(PS, inv)) = Q(Cardinality(PS), 1)
                    /\ \E lo \in PS : \A r \in PS : QLe(Series[lo], Series[r])
                           /\ QLe(Series[lo], hm)
                    /\ \E hi \in PS : \A r \in PS : QLe(Series[r], Series[hi])
                           /\ QLe(hm, Series[hi])

C18_Witness ==
    /\ Analyzed
    /\ Series = <<Q(-1, 1), Q(1, 2), Zero, One>>
    /\ Stats.GeometricMean = [k |-> "root", n |-> 1, d |-> 2, deg |-> 3]
    /\ Stats.HarmonicMean = Q(2, 3)

(* The sorted values of a column without missing cells, and the number cut *)
(* from each tail                                                          *)
Cut(n) == n \div 20
Kept(col) == SubSeq(Sorted(col), Cut(Len(col)) + 1, Len(col) - Cut(Len(col)))

(* C19 as stated: trimmed_mean removes the lowest 5% and the highest 5% of *)
(* the sorted values, the same number from each tail, and returns the      *)
(* average of the rest; the result always lies between the column minimum  *)
(* and maximum.                                                            *)
C19_TrimmedMeanBetween ==
    Analyzed =>
        /\ IsQ(Stats.TrimmedMean)
        /\ QLe(Min(Series), Stats.TrimmedMean)
        /\ QLe(Stats.TrimmedMean, Max(Series))

(* C19 amended: for a non-empty column without NaN, trimmed_mean removes   *)
(* floor(n / 20) values from each tail of the sorted values (none for      *)
(* n < 20) and returns the average of the rest, which lies between the     *)
(* column minimum and maximum.  NaN cells count as the highest values: the *)
(* result is NaN when the column holds more NaN cells than floor(n / 20),  *)
(* and the trimmed mean of the n values with the NaN cells among the       *)
(* removed ones otherwise.  An empty column gives NaN.                     *)
C19_TrimmedMeanAmended ==
    Analyzed =>
        LET n == Len(Series)
            tm == Stats.TrimmedMean
            nans == n - Len(Valid(Series))
            rest == SubSeq(Sorted(Valid(Series)), Cut(n) + 1, n - Cut(n))
        IN  IF n = 0 \/ nans > Cut(n) THEN IsNaN(tm)
            ELSE /\ IsQ(tm)
                 /\ QMul(tm, Q(Len(rest), 1)) = QSum(rest)
                 /\ Len(rest) = n - 2 * Cut(n)
                 /\ QLe(Min(Series), tm) /\ QLe(tm, Max(Series))
                 /\ nans = 0 => rest = Kept(Series)

C19_Witness ==
    /\ Analyzed
    /\ Len(Series) = 20
    /\ Series[1] = Q(-1, 1) /\ Series[2] = Q(1, 2) /\ Series[3] = One
    /\ ~HasNaN(Series)
    /\ Stats.ArithmeticMean = Q(35, 40)
    /\ Stats.TrimmedMean = Q(35, 36)

(* Rows 1..NRows(df) of the difference of columns i and j, when no cell of *)
(* the two columns is missing                                              *)
Complete(i, j) == ~HasNaN(df.cols[i]) /\ ~HasNaN(df.cols[j])
Diff(i, j) == [r \in 1..NRows(df) |-> QSub(df.cols[i][r], df.cols[j][r])]

ZeroDiagonal(m) == \A i \in 1..NCols(df) : m[i][i] = Zero

(* C20: minkowski_distance_matrix with p = 1 equals                        *)
(* manhattan_distance_matrix and with p = 2 equals                         *)
(* euclidean_distance_matrix in every cell; the diagonal of all three is   *)
(* exactly 0 for any column content; an off-diagonal Manhattan cell is     *)
(* sum |x - y| and a Euclidean cell sqrt(sum (x - y)^2).                   *)
C20_MinkowskiSpecialCases ==
    /\ op = "minkowski_distance_matrix" /\ arg.p \in {1, 2} =>
           /\ result.ok
           /\ ZeroDiagonal(result.val)
           /\ arg.p = 1 => result.val = manhattan_distance_matrix(df)
           /\ arg.p = 2 => result.val = euclidean_distance_matrix(df)
    /\ op = "manhattan_distance_matrix" =>
           /\ ZeroDiagonal(result.val)
           /\ \A i, j \in 1..NCols(df) : i # j /\ Complete(i, j) =>
                  result.val[i][j] =
                      QSum([r \in 1..NRows(df) |-> QAbs(Diff(i, j)[r])])
    /\ op = "euclidean_distance_matrix" =>
           /\ ZeroDiagonal(result.val)
           /\ \A i, j \in 1..NCols(df) : i # j /\ Complete(i, j) =>
                  result.val[i][j] = Sqrt(Dot(Diff(i, j), Diff(i, j)))

C20_Witness ==
    /\ op = "minkowski_distance_matrix" /\ arg.p = 1
    /\ df.cols = <<(<<Q(-1, 1), NaN, One>>), (<<One, Zero, Q(-1, 1)>>)>>
    /\ result.ok
    /\ IsNaN(result.val[1][2])
    /\ result.val[1][1] = Zero /\ result.val[2][2] = Zero

(* The cell v has exactly the rational value q                             *)
ValueIs(v, q) ==
    \/ v.k = "q" /\ v = q
    \/ v.k = "surd" /\ Sgn(v.n) = Sgn(q.n)
         /\ v.n * v.n * v.rd * q.d * q.d = q.n * q.n * v.d * v.d * v.rn

(* a = [1,2,3,4,5], b = [2,4,6,8,10]                                       *)
ScenarioDataset == Frame(<<Progression(1, 1, 5), Progression(2, 2, 5)>>)

(* C23: for a = [1,2,3,4,5], b = [2,4,6,8,10] the covariance of a and b is *)
(* 5 (20 / 4), their correlation is 1, and their euclidean distance is the *)
(* square root of 55.                                                      *)
C23_Scenario ==
    df = ScenarioDataset /\ result.ok =>
        /\ op = "covariance_matrix" =>
              /\ result.val[1][2] = Q(5, 1)
              /\ result.val[1][2] = QDiv(Q(20, 1), Q(NRows(df) - 1, 1))
        /\ op = "correlation_matrix" => ValueIs(result.val[1][2], One)
        /\ op = "euclidean_distance_matrix" =>
              result.val[1][2] = Sqrt(Q(55, 1))

C23_Witness ==
    /\ df = ScenarioDataset
    /\ op = "covariance_matrix"
    /\ result.val[2][1] = Q(5, 1)

(* The n equal-width bins of a column's own range: bin k (from 0) covers   *)
(* (lo + k w, lo + (k + 1) w], w = (hi - lo) / n, and bin 0 holds lo too.  *)
(* A column holding one distinct value c has the range c -/+ 0.1% of |c|   *)
(* (0 -/+ 0.001).                                                          *)
InBin(col, n, k, x) ==
    LET mn == Min(col)
        mx == Max(col)
        pad == IF mn = Zero THEN Q(1, 1000) ELSE QMul(Q(1, 1000), QAbs(mn))
        lo == IF mn = mx THEN QSub(mn, pad) ELSE mn
        hi == IF mn = mx THEN QAdd(mx, pad) ELSE mx
        w == QDiv(QSub(hi, lo), Q(n, 1))
    IN  \/ /\ QLt(QAdd(lo, QMul(Q(k, 1), w)), x)
           /\ QLe(x, QAdd(lo, QMul(Q(k + 1, 1), w)))
        \/ k = 0 /\ x = lo

(* A_c: the bin indices occupied by the valid cells of column c            *)
OccupiedBins(col, n) ==
    {k \in 0..(n - 1) : \E r \in 1..Len(col) : IsQ(col[r]) /\ InBin(col, n, k, col[r])}

JaccardCells(n) ==
    \A i, j \in 1..NCols(df) :
        LET A == OccupiedBins(df.cols[i], n)
            B == OccupiedBins(df.cols[j], n)
        IN  /\ i = j => result.val[i][j] = One
            /\ i # j /\ A \cup B # {} =>
                   result.val[i][j] = Q(Cardinality(A \cap B), Cardinality(A \cup B))
            /\ IsQ(result.val[i][j])
            /\ QLe(Zero, result.val[i][j]) /\ QLe(result.val[i][j], One)
            /\ result.val[i][j] = result.val[j][i]

(* C21: for any bin count, the Jaccard matrix holds 1 in both cells of two *)
(* columns with identical values and on the diagonal, every cell is the    *)
(* size of the intersection over the size of the union of the two columns' *)
(* occupied bins, and the matrix is symmetric with entries in [0, 1].      *)
C21_Jaccard ==
    op = "jaccard_similarity_matrix" =>
        /\ result.ok
        /\ JaccardCells(arg.n_bins)
        /\ \A i, j \in 1..NCols(df) : df.cols[i] = df.cols[j] =>
               result.val[i][j] = One /\ result.val[j][i] = One

(* C21 amended: as C21 whenever the matrix is returned, with 1 for two     *)
(* identical columns that hold a valid cell and 0 for two columns without  *)
(* a valid cell.  No matrix is returned for a DataFrame with a column and  *)
(* no row, or, with two or more bins, a column without a valid cell.       *)
C21_JaccardAmended ==
    op = "jaccard_similarity_matrix" =>
        /\ result.ok <=>
               ~(/\ NCols(df) >= 1
                 /\ \/ NRows(df) = 0
                    \/ /\ arg.n_bins >= 2
                       /\ \E i \in 1..NCols(df) : Valid(df.cols[i]) = <<>>)
        /\ result.ok =>
               /\ JaccardCells(arg.n_bins)
               /\ \A i, j \in 1..NCols(df) : i # j =>
                      /\ df.cols[i] = df.cols[j] /\ Valid(df.cols[i]) # <<>> =>
                             result.val[i][j] = One
                      /\ Valid(df.cols[i]) = <<>> /\ Valid(df.cols[j]) = <<>> =>
                             result.val[i][j] = Zero
        /\ ~result.ok => result.exc = "ValueError" /\ "val" \notin DOMAIN result

C21_Witness ==
    /\ op = "jaccard_similarity_matrix" /\ arg.n_bins = DefaultBins
    /\ df.cols = <<(<<Q(-1, 1), Zero, One>>), (<<Zero, One, One>>)>>
    /\ result.ok
    /\ result.val[1][2] = Q(2, 3) /\ result.val[2][1] = Q(2, 3)
    /\ result.val[1][1] = One

Symmetric(m) == \A i, j \in 1..Len(m) : m[i][j] = m[j][i]

(* C22: the cosine similarity matrix is symmetric and its diagonal cell is *)
(* exactly 1 for every column that is not all zeros.                       *)
C22_CosineUnitDiagonal ==
    op = "cosine_similarity_matrix" =>
        /\ result.ok => Symmetric(result.val)
        /\ \A i \in 1..NCols(df) : ~AllZero(df.cols[i]) =>
               result.ok /\ ValueIs(result.val[i][i], One)

(* C22 amended: the matrix is returned exactly for a DataFrame with a row, *)
(* a column and no NaN cell; it is then symmetric, with 1 on the diagonal  *)
(* for a column that is not all zeros and 0 for a column of zeros.         *)
(* Otherwise the input validation raises and there is no matrix.           *)
C22_CosineAmended ==
    op = "cosine_similarity_matrix" =>
        /\ result.ok <=>
               /\ NCols(df) >= 1 /\ NRows(df) >= 1
               /\ \A i \in 1..NCols(df) : ~HasNaN(df.cols[i])
        /\ result.ok =>
               /\ Len(result.val) = NCols(df)
               /\ Symmetric(result.val)
               /\ \A i \in 1..NCols(df) :
                      IF AllZero(df.cols[i]) THEN result.val[i][i] = Zero
                      ELSE ValueIs(result.val[i][i], One)
        /\ ~result.ok => result.exc = "ValueError" /\ "val" \notin DOMAIN result

C22_Witness ==
    /\ op = "cosine_similarity_matrix"
    /\ df.cols = <<(<<Q(-1, 1), Zero, One>>), (<<One, One, Zero>>)>>
    /\ result.ok
    /\ ValueIs(result.val[1][2], Q(-1, 2))
    /\ ValueIs(result.val[2][1], Q(-1, 2))
    /\ ValueIs(result.val[1][1], One)

(* C30: for uniquely named columns the result of regression_matrix_2d has  *)
(* one entry per unordered pair of columns, N (N - 1) / 2 entries, each    *)
(* holding 1 for its two predictors and the fitted R^2 for every other     *)
(* column.                                                                 *)
C30_OneEntryPerPair ==
    op = "regression_matrix_2d" /\ result.ok =>
        /\ Cardinality(DOMAIN result.val) * 2 = NCols(df) * (NCols(df) - 1)
        /\ \A p \in regression_2d_pairs(NCols(df)) :
               /\ pair_name(df, p) \in DOMAIN result.val
               /\ result.val[pair_name(df, p)] = pair_r2_values(df, p, DefaultDegree)

(* The entries are one per pair when no two pairs share a key              *)
DistinctKeys ==
    \A p, q \in regression_2d_pairs(NCols(df)) :
        pair_name(df, p) = pair_name(df, q) => p = q

C30_DistinctKeysSuffice ==
    op = "regression_matrix_2d" /\ result.ok /\ DistinctKeys =>
        /\ Cardinality(DOMAIN result.val) * 2 = NCols(df) * (NCols(df) - 1)
        /\ \A p \in regression_2d_pairs(NCols(df)) :
               result.val[pair_name(df, p)] = pair_r2_values(df, p, DefaultDegree)

C30_Collision ==
    /\ op = "regression_matrix_2d" /\ result.ok
    /\ df.names = <<"a", "b__c", "a__b", "c">>
    /\ NRows(df) = PairRows
    /\ Cardinality(DOMAIN result.val) = 5

(* ------------------- DataModel and the code calling it ---------------- *)

MaxObjects == 4

(* The DataFrames the caller builds: one column of one row, and two        *)
(* columns of two rows.                                                    *)
ModelFrames == {Frame(<<<<Zero>>>>), Frame(<<<<Zero, One>>, <<One, One>>>>)}

(* The names the caller stores and asks for: slot names and one that is    *)
(* no slot.                                                                *)
TransformationNames == {"original", "z_transform", "log", "boxcox"}

(* A call without arguments                                                *)
NoArguments == [none |-> TRUE]

GuiInit ==
    /\ df = Frame(<<>>)
    /\ op = "none"
    /\ arg = NoArguments
    /\ result = [ok |-> TRUE]
    /\ Constructed

notModel == <<df, window, threads, event_queue, tab, handed, similarity_widget>>

(* The caller builds a DataFrame and keeps the reference.                  *)
NewDataFrame ==
    /\ Len(heap) < MaxObjects
    /\ \E d \in ModelFrames : heap' = Append(heap, d)
    /\ caller' = caller \cup {Len(heap) + 1}
    /\ op' = "DataFrame"
    /\ arg' = NoArguments
    /\ result' = Return(Len(heap) + 1)
    /\ UNCHANGED <<data_model, notModel>>

(* The caller changes, in place, a DataFrame it holds a reference to.      *)
ModifyDataFrame ==
    /\ \E r \in caller, d \in ModelFrames :
           /\ heap[r] # d
           /\ heap' = [heap EXCEPT ![r] = d]
           /\ arg' = [df |-> r]
    /\ op' = "modify"
    /\ result' = Return(None)
    /\ UNCHANGED <<data_model, caller, notModel>>

SetData ==
    /\ Len(heap) + 2 <= MaxObjects
    /\ \E r \in caller :
           \E stored \in {set_data(heap, data_model, r)} :
               /\ heap' = stored.heap
               /\ data_model' = stored.data_model
               /\ arg' = [df |-> r]
    /\ op' = "set_data"
    /\ result' = Return(None)
    /\ UNCHANGED <<caller, notModel>>

SetTransformation ==
    /\ Len(heap) < MaxObjects
    /\ \E name \in TransformationNames, r \in caller :
           \E stored \in {set_transformation(heap, data_model, name, r)} :
               /\ heap' = stored.heap
               /\ data_model' = stored.data_model
               /\ arg' = [name |-> name, df |-> r]
    /\ op' = "set_transformation"
    /\ result' = Return(None)
    /\ UNCHANGED <<caller, notModel>>

GetOriginalData ==
    /\ Len(heap) < MaxObjects
    /\ heap' = get_original_data(heap, data_model).heap
    /\ caller' = caller \cup ({get_original_data(heap, data_model).ret} \ {None})
    /\ op' = "get_original_data"
    /\ arg' = NoArguments
    /\ result' = Return(get_original_data(heap, data_model).ret)
    /\ UNCHANGED <<data_model, notModel>>

GetTransformation ==
    /\ Len(heap) < MaxObjects
    /\ \E name \in TransformationNames :
           /\ heap' = get_transformation(heap, data_model, name).heap
           /\ caller' = caller \cup
                  ({get_transformation(heap, data_model, name).ret} \ {None})
           /\ arg' = [name |-> name]
           /\ result' = Return(get_transformation(heap, data_model, name).ret)
    /\ op' = "get_transformation"
    /\ UNCHANGED <<data_model, notModel>>

Clear ==
    /\ data_model' = clear(data_model)
    /\ op' = "clear"
    /\ arg' = NoArguments
    /\ result' = Return(None)
    /\ UNCHANGED <<heap, caller, notModel>>

DataModelNext ==
    \/ NewDataFrame
    \/ ModifyDataFrame
    \/ SetData
    \/ SetTransformation
    \/ GetOriginalData
    \/ GetTransformation
    \/ Clear

DataModelSpec == GuiInit /\ [][DataModelNext]_vars

(* ------------------------ properties of DataModel --------------------- *)

(* The DataFrame a reference stands for                                    *)
ValueOf(h, r) == IF r = None THEN NoDataFrame ELSE h[r]

(* What get_original_data() and get_transformation(name) return, by value  *)
ModelReturns ==
    [original |-> ValueOf(heap, data_model.original_data),
     transformations |->
         [n \in DOMAIN data_model.transformations |->
             ValueOf(heap, get_transformation(heap, data_model, n).ret)]]

AfterSetData ==
    op = "set_data" =>
        /\ ModelReturns.transformations["original"] = heap[arg.df]
        /\ ModelReturns.original = heap[arg.df]
        /\ \A n \in Elems(DerivedNames) :
               get_transformation(heap, data_model, n).ret = None
        /\ get_n_rows(data_model) = NRows(heap[arg.df])
        /\ get_n_columns(data_model) = NCols(heap[arg.df])
        /\ get_column_names(data_model) = heap[arg.df].names

AfterClear ==
    op = "clear" =>
        /\ ~has_data(data_model)
        /\ \A n \in DOMAIN data_model.transformations :
               get_transformation(heap, data_model, n).ret = None
        /\ get_n_rows(data_model) = 0
        /\ get_n_columns(data_model) = 0

DerivedOnlyWithData ==
    \A n \in Elems(DerivedNames) :
        get_transformation(heap, data_model, n).ret # None => has_data(data_model)

(* C27: right after set_data(df) the original slot and get_original_data() *)
(* equal df, the five derived slots are None and the counts and column     *)
(* names are those of df; right after clear() has_data() is false, every   *)
(* slot is None and the counts are 0; and a derived slot is non-None only  *)
(* while has_data() is true.                                               *)
C27_DataModelInvariants == AfterSetData /\ AfterClear /\ DerivedOnlyWithData

(* What does hold of DataModel: the states right after set_data and right  *)
(* after clear are as described.                                           *)
SetDataAndClearReset == AfterSetData /\ AfterClear

SetDataReached ==
    /\ op = "set_data"
    /\ NCols(heap[arg.df]) = 2
    /\ "boxcox" \in DOMAIN data_model.transformations

ClearReached == op = "clear" /\ "boxcox" \in DOMAIN data_model.transformations

(* C28: a caller that modifies a DataFrame it passed to set_data or        *)
(* set_transformation, or one it got from get_original_data or             *)
(* get_transformation, does not change what the model returns.             *)
C28_Isolation == [][op' = "modify" => ModelReturns' = ModelReturns]_vars

(* The objects the model stores                                            *)
Stored ==
    ({data_model.original_data} \cup
     {data_model.transformations[n] : n \in DOMAIN data_model.transformations})
    \ {None}

(* What does hold: the model's objects are reached by the caller only      *)
(* through get_transformation.                                             *)
StoredReachedByGetTransformation ==
    [][caller' \cap Stored' # {} /\ caller \cap Stored = {}
          => op' = "get_transformation"]_vars

(* ------------------ threads and the main thread's queue --------------- *)

(* A running thread runs one step of run; what it emits is queued for the  *)
(* main thread.                                                            *)
ThreadStep ==
    /\ ~Crashed(threads)
    /\ \E t \in Running(threads) :
           \E th \in {threads[t]} :
               \E r \in {ThreadRun(th, t)} :
                   /\ threads' = [threads EXCEPT ![t] = r.thread]
                   /\ event_queue' = event_queue \o r.events
    /\ UNCHANGED <<engine, heap, data_model, caller, window, tab, handed,
                   similarity_widget>>

(* ------------------------- a SimilarityWidget ------------------------- *)

MaxCalcs == 3

(* Two columns of two rows with different values, one column, one row,     *)
(* and no column.                                                          *)
WidgetFrames ==
    {Frame(<<<<Zero, One>>, <<One, One>>>>), Frame(<<<<Zero, Zero>>, <<One, One>>>>),
     Frame(<<<<Zero, One>>>>), Frame(<<<<Zero>>, <<One>>>>), Frame(<<>>)}

WidgetSetData ==
    /\ ~Crashed(threads)
    /\ Len(threads) < MaxCalcs
    /\ \E d \in WidgetFrames, keep \in BOOLEAN :
           \E r \in {SimilarityWidget_set_data(similarity_widget, threads, d, "widget")} :
               /\ similarity_widget' = r.widget
               /\ threads' = r.threads
               /\ event_queue' = Pending(event_queue,
                                         Referenced(window, tab, r.widget), keep)
               /\ arg' = [df |-> d]
    /\ op' = "set_data"
    /\ result' = Return(None)
    /\ UNCHANGED <<df, heap, data_model, caller, window, tab, handed>>

(* The main thread takes the next queued signal and runs its slot.         *)
WidgetDeliver ==
    /\ ~Crashed(threads)
    /\ event_queue # <<>>
    /\ event_queue' = Tail(event_queue)
    /\ similarity_widget' =
           IF Head(event_queue).signal = "progress"
           THEN SimilarityWidget_update_progress(similarity_widget,
                                                 Head(event_queue).args[1])
           ELSE SimilarityWidget_display_results(similarity_widget,
                                                 Head(event_queue).args[1])
    /\ UNCHANGED <<engine, heap, data_model, caller, window, threads, tab, handed>>

WidgetNext == WidgetSetData \/ ThreadStep \/ WidgetDeliver

WidgetSpec == GuiInit /\ [][WidgetNext]_vars

(* The four matrices of a DataFrame                                        *)
SimilarityResults(f) ==
    [euclidean |-> euclidean_distance_matrix(f),
     manhattan |-> manhattan_distance_matrix(f),
     cosine |-> cosine_similarity_matrix(f).val,
     jaccard |-> jaccard_similarity_matrix(f, DefaultBins).val]

(* No thread runs and no signal waits                                      *)
Quiescent == ~Crashed(threads) /\ Running(threads) = {} /\ event_queue = <<>>

(* C25: once set_data(df) was called with a non-empty df and no            *)
(* calculation is still under way, the matrices the widget displays are    *)
(* those of the df supplied last, also when it has the row count and the   *)
(* column names of the one before but other values.                        *)
C25_DisplaysLatest ==
    op = "set_data" /\ ~IsEmpty(arg.df) /\ Quiescent
        => similarity_widget.views = SimilarityResults(arg.df)

(* What does hold: the matrices displayed are those of the DataFrame the   *)
(* widget has kept.                                                        *)
DisplaysKept ==
    op = "set_data" /\ Quiescent /\ similarity_widget.current_data # NoDataFrame
        => similarity_widget.views = SimilarityResults(similarity_widget.current_data)

DisplaysKeptReached ==
    /\ op = "set_data" /\ Quiescent /\ Len(threads) = 2
    /\ similarity_widget.current_data = arg.df

(* The case of two DataFrames of one shape: the second is not displayed    *)
StaleDisplayReached ==
    /\ op = "set_data" /\ Quiescent
    /\ similarity_widget.current_data # NoDataFrame
    /\ arg.df # similarity_widget.current_data
    /\ NRows(arg.df) = NRows(similarity_widget.current_data)
    /\ arg.df.names = similarity_widget.current_data.names
    /\ similarity_widget.views # SimilarityResults(arg.df)

(* ------------------------- a TransformationTab ------------------------ *)

TabCalcs == 1

(* Two DataFrames of one shape and one without columns                     *)
TabFrames == {Frame(<<<<Zero, One>>>>), Frame(<<<<One, Zero>>>>), Frame(<<>>)}

(* The DataFrame each sub-tab widget was last handed                       *)
HandedAfter(calls) ==
    [k \in 1..3 |->
        IF \E c \in calls : c[1] = k
        THEN (CHOOSE c \in calls : c[1] = k)[2]
        ELSE handed[k]]

TabSetData ==
    /\ ~Crashed(threads)
    /\ \E d \in TabFrames, keep \in BOOLEAN :
           \E r \in {TransformationTab_set_data(tab, threads, d, "tab")} :
               /\ Len(r.threads) <= TabCalcs
               /\ tab' = r.tab
               /\ threads' = r.threads
               /\ handed' = HandedAfter(r.calls)
               /\ event_queue' = Pending(event_queue,
                      Referenced(window, r.tab, similarity_widget), keep)
               /\ arg' = [df |-> d]
    /\ op' = "set_data"
    /\ result' = Return(None)
    /\ UNCHANGED <<df, heap, data_model, caller, window, similarity_widget>>

(* The user selects another sub-tab: currentChanged(index)                 *)
SwitchSubTab ==
    /\ ~Crashed(threads)
    /\ \E index \in (0..3) \ {tab.current_index}, keep \in BOOLEAN :
           \E r \in {TransformationTab_on_tab_changed(tab, threads, index, "tab")} :
               /\ Len(r.threads) <= TabCalcs
               /\ tab' = r.tab
               /\ threads' = r.threads
               /\ handed' = HandedAfter(r.calls)
               /\ event_queue' = Pending(event_queue,
                      Referenced(window, r.tab, similarity_widget), keep)
               /\ arg' = [index |-> index]
    /\ op' = "currentChanged"
    /\ result' = Return(None)
    /\ UNCHANGED <<df, heap, data_model, caller, window, similarity_widget>>

(* The main thread takes the next queued signal and runs the slot of the   *)
(* widget it is connected to.                                              *)
TabDeliver ==
    /\ ~Crashed(threads)
    /\ event_queue # <<>>
    /\ event_queue' = Tail(event_queue)
    /\ \E e \in {Head(event_queue)} :
           tab' =
             IF threads[e.thread].kind = "relationship"
             THEN [tab EXCEPT !.relationship_widget =
                     IF e.signal = "progress"
                     THEN RelationshipWidget_update_progress(@, e.args[1])
                     ELSE RelationshipWidget_display_results(@, e.args[1])]
             ELSE [tab EXCEPT !.similarity_widget =
                     IF e.signal = "progress"
                     THEN SimilarityWidget_update_progress(@, e.args[1])
                     ELSE SimilarityWidget_display_results(@, e.args[1])]
    /\ UNCHANGED <<engine, heap, data_model, caller, window, threads, handed,
                   similarity_widget>>

TabNext == TabSetData \/ SwitchSubTab \/ ThreadStep \/ TabDeliver

TabSpec == GuiInit /\ [][TabNext]_vars

(* -------------------- properties of TransformationTab ----------------- *)

DataViewLoaded == tab.data_widget.df = tab.data

CurrentHanded ==
    tab.current_index > 0 /\ tab.data # NoDataFrame
        => handed[tab.current_index] = tab.data

(* set_data reaches the widget of sub-tab k                                *)
Receives(k) == handed'[k] # handed[k]

(* A computation of the engine is started for sub-tab k: the statistics    *)
(* of the Analysis table, or a thread of the Relationships or Similarity   *)
(* widget.                                                                 *)
Starts(k) ==
    \/ k = 1 /\ tab'.analysis_widget # tab.analysis_widget
    \/ /\ k \in {2, 3}
       /\ Len(threads') > Len(threads)
       /\ threads'[Len(threads')].kind = (IF k = 2 THEN "relationship" ELSE "similarity")

LoadedWhenCurrent ==
    \A k \in 1..3 :
        /\ Receives(k) =>
              /\ tab'.data # NoDataFrame
              /\ tab'.current_index = k
              /\ \/ op' = "set_data" /\ tab.current_index = k
                 \/ op' = "currentChanged" /\ tab.current_index # k
        /\ Starts(k) => tab'.current_index = k

(* C29: a sub-tab widget receives set_data only when the tab's data is set *)
(* while its sub-tab is current, or when the user switches to its sub-tab  *)
(* while the tab holds data; the data view is loaded on every set_data;    *)
(* so the widget of a current non-data sub-tab has been handed the tab's   *)
(* latest data, and nothing is computed for a sub-tab not selected.        *)
C29_LazySubTabs ==
    /\ [](DataViewLoaded /\ CurrentHanded)
    /\ [][LoadedWhenCurrent]_vars

C29_Witness ==
    /\ tab.current_index = 2
    /\ tab.data # NoDataFrame /\ ~IsEmpty(tab.data)
    /\ handed[2] = tab.data
    /\ handed[1] # NoDataFrame /\ handed[1] # tab.data
    /\ handed[3] = NoDataFrame
    /\ tab.relationship_widget.views # NoResults

(* ------------------------------ MainWindow ---------------------------- *)

MaxLoads == 2

(* Two DataFrames of one shape whose transforms differ                     *)
AppFrames == {Frame(<<<<Zero, One>>>>), Frame(<<<<One, Zero>>>>)}

(* The loads made so far                                                   *)
Loads == Len(threads) + (IF Crashed(threads) THEN 1 ELSE 0)

(* File > Import Data, accepted: _load_data(df) with the imported          *)
(* DataFrame.  The menu is out of reach while the progress dialog, modal   *)
(* to the window, is shown.                                                *)
ImportData ==
    /\ ~Crashed(threads)
    /\ ~window.progress_dialog.visible
    /\ Loads < MaxLoads
    /\ \E d \in AppFrames, keep \in BOOLEAN :
           \E h \in {Append(heap, d)} :
           \E r \in {MainWindow_load_data(h, data_model, window, threads, Len(h))} :
               /\ heap' = r.heap
               /\ data_model' = r.data_model
               /\ window' = r.window
               /\ threads' = r.threads
               /\ event_queue' = Pending(event_queue,
                      Referenced(r.window, tab, similarity_widget), keep)
               /\ arg' = [df |-> d]
    /\ op' = "load_data"
    /\ result' = Return(None)
    /\ UNCHANGED <<df, caller, tab, handed, similarity_widget>>

(* The user presses Cancel in the progress dialog.                         *)
CancelProgress ==
    /\ ~Crashed(threads)
    /\ window.progress_dialog.visible
    /\ window' = [window EXCEPT !.progress_dialog = ProgressDialog_cancel(@)]
    /\ UNCHANGED <<engine, heap, data_model, caller, threads, event_queue, tab,
                   handed, similarity_widget>>

(* The main thread takes the next queued signal of a TransformationThread  *)
(* and runs the slot connected to it.                                      *)
WindowDeliver ==
    /\ ~Crashed(threads)
    /\ event_queue # <<>>
    /\ event_queue' = Tail(event_queue)
    /\ \E e \in {Head(event_queue)} :
           IF e.signal = "progress"
           THEN /\ \E reshow \in BOOLEAN :
                       window' = MainWindow_update_transform_progress(window, e, reshow)
                /\ UNCHANGED <<heap, data_model, threads>>
           ELSE \E r \in {MainWindow_on_transformation_complete(heap, data_model,
                                                               window, threads, e)} :
                    /\ heap' = r.heap
                    /\ data_model' = r.data_model
                    /\ window' = r.window
                    /\ threads' = r.threads
    /\ UNCHANGED <<engine, caller, tab, handed, similarity_widget>>

AppNext == ImportData \/ CancelProgress \/ ThreadStep \/ WindowDeliver

AppSpec == GuiInit /\ [][AppNext]_vars

(* ThreadStep is enabled exactly when a thread is running                  *)
CanStep == ~Crashed(threads) /\ Running(threads) # {}

(* WF_vars(ThreadStep), with ENABLED <<ThreadStep>>_vars written as        *)
(* CanStep: the operating system goes on scheduling a started thread.      *)
ThreadFairness == []<>(~CanStep) \/ []<><<ThreadStep>>_vars

(* A started thread runs on, and the event loop of the main thread goes    *)
(* on delivering.                                                          *)
FairAppSpec == AppSpec /\ ThreadFairness /\ WF_vars(WindowDeliver)

(* ------------------------ properties of MainWindow -------------------- *)

(* The transform of the loaded original                                    *)
TransformOfOriginal(n) ==
    apply_transformation(heap[data_model.original_data], n).val

(* C24: whatever the interleaving of loads and thread completions, a       *)
(* derived transformation stored in the model and the one shown in its tab *)
(* are the transform of the original loaded now; a result of a thread      *)
(* started for an earlier load is not stored or shown after a later load.  *)
C24_DerivedOfCurrentLoad ==
    ~Crashed(threads) /\ has_data(data_model) =>
        \A n \in Elems(DerivedNames) :
            /\ data_model.transformations[n] # None =>
                   heap[data_model.transformations[n]] = TransformOfOriginal(n)
            /\ window.transformation_tabs[n].data # NoDataFrame =>
                   window.transformation_tabs[n].data = TransformOfOriginal(n)

(* What does hold: after a single load the derived transformations are     *)
(* those of the loaded original.                                           *)
SingleLoadDerived == Loads = 1 => C24_DerivedOfCurrentLoad

(* A second load while the thread of the first still runs                  *)
LoadWhileRunningReached == Crashed(threads)

AllFilled ==
    \A n \in Elems(DerivedNames) : get_transformation(heap, data_model, n).ret # None

(* The events queued in this step                                          *)
Emitted == SubSeq(event_queue', Len(event_queue) + 1, Len(event_queue'))

(* The step of thread t: progress and finished of the next name in list    *)
(* order, then the closing progress(100); no progress value is below the   *)
(* one before.                                                             *)
ThreadEmits(t) ==
    LET th == threads[t]
        k == Len(th.names)
        value(i) == (i * 100) \div k
    IN  IF th.i < k
        THEN /\ Len(Emitted) = 2
             /\ Emitted[1].signal = "progress" /\ Emitted[1].thread = t
             /\ Emitted[1].args[1] = value(th.i)
             /\ th.i > 0 => value(th.i - 1) <= value(th.i)
             /\ value(th.i) <= 100
             /\ Emitted[2] = Event("finished", t,
                    <<th.names[th.i + 1],
                      apply_transformation(th.df, th.names[th.i + 1]).val>>)
             /\ threads'[t] = [th EXCEPT !.i = th.i + 1]
        ELSE /\ Len(Emitted) = 1
             /\ Emitted[1].signal = "progress" /\ Emitted[1].thread = t
             /\ Emitted[1].args[1] = 100
             /\ threads'[t] = [th EXCEPT !.pc = "done"]

ThreadSteps ==
    \A t \in 1..Len(threads) :
        threads'[t] # threads[t] /\ threads'[t].pc # "destroyed" => ThreadEmits(t)

FilledOnce ==
    Loads = 1 /\ Loads' = 1 =>
        \A n \in Elems(DerivedNames) :
            data_model.transformations[n] # None =>
                data_model'.transformations[n] = data_model.transformations[n]

(* C26: a TransformationThread emits, for each name in list order, one     *)
(* progress and then one finished with the transform of that name;         *)
(* progress values do not decrease and the last event is progress(100).    *)
(* After a single load each of the five derived slots is filled in the     *)
(* end, and filled once.                                                   *)
C26_ThreadEvents ==
    /\ [][ThreadSteps /\ FilledOnce]_vars
    /\ (Loads = 1) ~> (AllFilled \/ Loads # 1)

C26_Witness ==
    /\ Loads = 1 /\ AllFilled /\ event_queue = <<>>
    /\ threads[1].pc = "done" /\ threads[1].i = 5
    /\ ~window.progress_dialog.visible

====
